---- MODULE Spec2Model ----
(***************************************************************************)
(* A model of parts of the sparse-graph core:                              *)
(*   - the concurrent CPU id hash map (array/cpu/cpu_id_hash_map.h),       *)
(*   - the row-wise sampling policies  (array/cpu/rowwise_sampling.cc),    *)
(*   - the row-wise top-k policy       (array/cpu/rowwise_topk.cc),        *)
(*   - broadcast-shape inference and the binary-reduce entry points        *)
(*     (kernel/binary_reduce.cc),                                          *)
(*   - the SpMM kernels over CSR and COO (array/cuda/spmm.cuh),            *)
(*   - index compaction (sparse/matrix_ops.cc),                            *)
(*   - unique-and-compact relabelling (graphbolt, unique_and_compact),     *)
(*   - the COO operators COOIntersection, COORemoveIf, COOEtypeRemoveIf    *)
(*     (array/cpu/coo_remove_if.cc and the unnamed parts),                 *)
(*   - the compare-and-swap atomics (DEFINE_ATOMIC),                       *)
(*   - the tensorpipe communicator (rpc/tensorpipe/tp_communicator.cc).    *)
(* Each part has its own specification (SpecHash, SpecPick, SpecTopk,      *)
(* SpecBiased, SpecUniformBoth, SpecBcast, SpecCtx, SpecCsr, SpecCoo,      *)
(* SpecCompact, SpecUnique, SpecCooOps, SpecAtomic, SpecTP and, with       *)
(* fairness, SpecTPFair); the variables of the other parts stay at their   *)
(* idle values.                                                            *)
(***************************************************************************)
EXTENDS Integers, Sequences, FiniteSets, TLC

(* ------------------------------ bounds --------------------------------- *)
\* longest id list given to CpuIdHashMap::Init
MaxNumIds == 3
\* ids per unit of parallel work; the header sets 1024, scaled down here so
\* that lists of MaxNumIds ids are split over more than one worker
grain_size == 2
\* longest queried row of the pick engine
MaxLen == 3
\* largest num_samples (the smallest is -1, "take all")
MaxSamples == 2
\* largest extent of a feature axis (the smallest is 0)
MaxDim == 3
\* most trailing (feature) axes of an array
MaxTrail == 2
\* most rows and most nonzeros of a CSR given to SpMMCsr
MaxRows == 2
MaxNnz == 3
\* most edges of a COO given to SpMMCoo
MaxEdges == 2
\* longest index array given to CompactIndices (its ids are below this
\* length) and longest leading_indices
MaxRowLen == 3
MaxLeading == 2
\* longest id tensor given to UniqueAndCompact; its ids are 0..MaxIdsLen
MaxIdsLen == 2
\* most entries of a COO given to COOIntersection, COORemoveIf and
\* COOEtypeRemoveIf
MaxCooNnz == 2
\* most concurrent callers of one atomic operation on one address
MaxCallers == 3
\* most TPSenders connecting to the one TPReceiver, and most messages all
\* of them send together
MaxSenders == 2
MaxMsgs == 2

(* ------------------------- program constants --------------------------- *)
kEmptyKey == -1
\* content of an output cell that no worker has written yet
Unwritten == -2

(* ------------------------------ helpers -------------------------------- *)
Min(a, b) == IF a < b THEN a ELSE b
Max(a, b) == IF a < b THEN b ELSE a

RECURSIVE Prod(_)
\* product of the entries of a sequence, 1 for the empty one
Prod(s) == IF s = <<>> THEN 1 ELSE Head(s) * Prod(Tail(s))

Reverse(s) == [i \in 1..Len(s) |-> s[Len(s) + 1 - i]]

RECURSIVE Pow2AtLeast(_, _)
Pow2AtLeast(c, m) == IF c >= m THEN c ELSE Pow2AtLeast(2 * c, m)

RECURSIVE SumTo(_, _)
\* f[0] + ... + f[n-1]
SumTo(f, n) == IF n = 0 THEN 0 ELSE f[n - 1] + SumTo(f, n - 1)

Range(s) == {s[j] : j \in 1..Len(s)}

RECURSIVE SeqsUpTo(_, _)
\* all sequences over S of length 0..n
SeqsUpTo(S, n) ==
  IF n = 0 THEN {<<>>}
  ELSE LET shorter == SeqsUpTo(S, n - 1)
       IN shorter \cup {Append(s, x) : s \in {q \in shorter : Len(q) = n - 1}, x \in S}

(***************************************************************************)
(*                      1. Concurrent id hash map                          *)
(***************************************************************************)
VARIABLES
  ids,           \* the input id list of Init (0-based position i is ids[i+1])
  hmap,          \* _hmap: slot -> [key, value]
  valid,         \* valid[i+1]: position i made the first claim of its key
  wk,            \* per worker: [st, i, pos, cnt]
  block_offset,  \* exclusive sums of the workers' counts, 0-based t at [t+1]
  unique_ids,    \* output buffer of Init
  hpc,           \* "off" | "insert" | "fill" | "ready" | "mapping" | "mapped"
  ret,           \* value returned by Init
  lookup,        \* last single lookup: [id, dflt, res]
  qids,          \* input of Map
  mdflt,         \* default_val of Map
  new_ids,       \* output buffer of Map
  pending        \* chunks of Map not yet processed

hvars == <<ids, hmap, valid, wk, block_offset, unique_ids, hpc, ret,
           lookup, qids, mdflt, new_ids, pending>>

\* ---- state of the row-wise pick engine (section 2) ----
VARIABLES
  policy,       \* "uniform" | "prob" | "topk"
  off, len,     \* the row's extent
  data,         \* edge-id array of the adjacency, <<>> when it has none
  prob,         \* probability per edge id (0-based edge id e at prob[e+1])
  num_samples,
  replace,
  weight,       \* top-k weight per edge id, in tenths
  k,
  ascending,
  num_picks,    \* what phase 1 returned for the row
  out_idx,      \* the positions written by the pick function, in order
  ppc           \* "off" | "start" | "counted" | "picked" | "error"

pvars == <<policy, off, len, data, prob, num_samples, replace, weight, k,
           ascending, num_picks, out_idx, ppc>>

PickIdle ==
  /\ policy = "none" /\ off = 0 /\ len = 0 /\ data = <<>> /\ prob = <<>>
  /\ num_samples = 0 /\ replace = FALSE /\ weight = <<>> /\ k = 0
  /\ ascending = FALSE /\ num_picks = 0 /\ out_idx = <<>> /\ ppc = "off"

\* ---- state of broadcast-shape inference (section 3) ----
VARIABLES
  lhs_dims, rhs_dims,  \* the two feature arrays' shapes, leading axis first
  bj,                  \* loop counter j of CalcBcastInfo
  accum,               \* size of the pending run of equal axes, 0 for none
  info,                \* the BcastInfo under construction / returned
  lhs_add, rhs_add,    \* per flat coordinate tx: offsets the kernel reads at
  bpc                  \* "off" | "loop" | "flush" | "done" | "error" | "run"

bvars == <<lhs_dims, rhs_dims, bj, accum, info, lhs_add, rhs_add, bpc>>

EmptyInfo ==
  [lhs_shape |-> <<>>, rhs_shape |-> <<>>, out_shape |-> <<>>,
   real_out_shape |-> <<>>, lhs_stride |-> <<>>, rhs_stride |-> <<>>,
   out_stride |-> <<>>]

\* ---- state of the binary-reduce entry points (section 4) ----
VARIABLES
  fn,        \* the entry point that was called
  gctx,      \* graph->Context()
  actx,      \* context of every array argument, "none" for a none array
  written,   \* the output arrays a kernel has written
  xpc        \* "off" | "called" | "failed" | "dispatched" | "done"

xvars == <<fn, gctx, actx, written, xpc>>

\* ---- state of the SpMM kernels (sections 5 and 6) ----
VARIABLES
  indptr, indices,     \* CSR adjacency
  coo_row, coo_col,    \* COO adjacency: edge e is coo_row[e+1] -> coo_col[e+1]
  ufeat, efeat,        \* one feature per source node / per edge (0-based)
  reducer,             \* "sum" | "max" | "min"
  native_add,          \* the build has a hardware atomicAdd for DType
  out, arg_u, arg_e,   \* output arrays, one element per destination
  th,                  \* per worker of the running kernel: its registers
  mpc                  \* "off" | "start" | "reduce" | "arg" | "done"

mvars == <<indptr, indices, coo_row, coo_col, ufeat, efeat, reducer,
           native_add, out, arg_u, arg_e, th, mpc>>

\* ---- state of index compaction (section 7) ----
VARIABLES
  row,               \* the index array given to CompactIndices
  leading_indices,   \* the optional prefix: [has_value, value]
  uniqued, uniq_idx, \* what torch::_unique returned
  new_row, ret_idx,  \* relabelled row, reverse mapping
  new_row2, ret_idx2,\* the same for a second compaction of new_row
  cpc                \* "off" | "start" | "compacted" | "again"

cvars == <<row, leading_indices, uniqued, uniq_idx, new_row, ret_idx,
           new_row2, ret_idx2, cpc>>

\* ---- state of UniqueAndCompact (section 8) ----
VARIABLES
  src_ids, dst_ids, unique_dst_ids,
  real_order, sorted_order,
  new_src_ids_loc, new_dst_ids_loc,
  found,      \* per dst id: what EqualityFunc read at its found location
  uresult,    \* the returned tuple, <<>> while there is none
  upc         \* "off" | "start" | "located" | "returned" | "thrown"

uvars == <<src_ids, dst_ids, unique_dst_ids, real_order, sorted_order,
           new_src_ids_loc, new_dst_ids_loc, found, uresult, upc>>

\* the variables of sections 3 to 8
\* ---- state of the COO operators (section 9) ----
VARIABLES
  coo,          \* the COO argument: [num_cols, row, col, data], data <<>> when
                \* the matrix has none (COOIntersection: lhs)
  rhs_coo,      \* COOIntersection: rhs
  values,       \* COORemoveIf: values; COOEtypeRemoveIf: one per edge type,
                \* <<>> for a null array
  criteria,
  etype_offset,
  het,          \* COOEtypeRemoveIf: [etype, eid] computed for each entry
  oret,         \* what the operator returned
  opc           \* "off" | the operator called | "intersected" | "removed" |
                \* "etype_removed"

ovars == <<coo, rhs_coo, values, criteria, etype_offset, het, oret, opc>>

EmptyCoo == [num_cols |-> 0, row |-> <<>>, col |-> <<>>, data |-> <<>>]

\* ---- COORowWiseSamplingUniform on the adjacency of section 2 ----
VARIABLES
  coo_num_picks \* the number of picks the COO entry point gives the queried
                \* row, Unwritten before it has run

\* ---- state of the atomic operations (section 10) ----
VARIABLES
  atomic,       \* "Max" | "Min" | "Add", the operation all callers apply
  addr,         \* the code stored at the address
  addr0,        \* the code it held before the first call
  callers       \* per caller [pc, val, old, assumed, replaced, ret]

avars == <<atomic, addr, addr0, callers>>

\* ---- state of the tensorpipe communicator (section 11) ----
VARIABLES
  senders,        \* per TPSender [pc, sent]: pc is "idle" | "connected"
                  \* (pipes_[recv_id] is set); sent counts its Send calls
  listener,       \* pipes connected to the listener and not yet accepted
  inq,            \* per pipe, the messages written and not yet read
  ops,            \* per pipe, the read operations posted on it, oldest
                  \* first: [cb, st], cb names the callback ("connect" |
                  \* "rpc"), st is "desc" (readDescriptor posted) or "read"
                  \* (descriptor delivered, pipe->read posted)
  wait_thread_,   \* position of the accepting thread: "none" (not started)
                  \* | "listen" | "pipe_wait" | "check_wait"
  pipe_prom,      \* the promise of the accepted pipe, <<>> while unset
  checkConnect,   \* the promise of the handshake check, <<>> while unset
  listen_booted_,
  num_connected_,
  pipes_,         \* the receiver's map from connection number to pipe
  queue_,         \* the receiver's RPCMessageQueue, oldest first
  received,       \* the messages Recv has handed out, oldest first
  num_sender,     \* arguments of Wait
  blocking,
  wait_pc,        \* position of the thread calling Wait: "idle" | "booting"
                  \* (line 156) | "connecting" (line 158) | "returned_true"
  total_sent      \* messages sent over all pipes

tvars == <<senders, listener, inq, ops, wait_thread_, pipe_prom, checkConnect,
           listen_booted_, num_connected_, pipes_, queue_, received,
           num_sender, blocking, wait_pc, total_sent>>

nvars == <<ovars, coo_num_picks, avars, tvars>>

kvars == <<bvars, xvars, mvars, cvars, uvars, nvars>>

\* no call of sections 3 to 8 has been made
KernelIdle ==
  /\ lhs_dims = <<>> /\ rhs_dims = <<>> /\ bj = 0 /\ accum = 0
  /\ info = EmptyInfo /\ lhs_add = <<>> /\ rhs_add = <<>> /\ bpc = "off"
  /\ fn = "none" /\ gctx = "cpu" /\ actx = <<>> /\ written = {} /\ xpc = "off"
  /\ indptr = <<>> /\ indices = <<>> /\ coo_row = <<>> /\ coo_col = <<>>
  /\ ufeat = <<>> /\ efeat = <<>> /\ reducer = "none" /\ native_add = TRUE
  /\ out = <<>> /\ arg_u = <<>> /\ arg_e = <<>> /\ th = <<>> /\ mpc = "off"
  /\ row = <<>> /\ leading_indices = [has_value |-> FALSE, value |-> <<>>]
  /\ uniqued = <<>> /\ uniq_idx = <<>>
  /\ new_row = <<>> /\ ret_idx = <<>> /\ new_row2 = <<>> /\ ret_idx2 = <<>>
  /\ cpc = "off"
  /\ src_ids = <<>> /\ dst_ids = <<>> /\ unique_dst_ids = <<>>
  /\ real_order = <<>> /\ sorted_order = <<>> /\ new_src_ids_loc = <<>>
  /\ new_dst_ids_loc = <<>> /\ found = <<>> /\ uresult = <<>> /\ upc = "off"
  /\ coo = EmptyCoo /\ rhs_coo = EmptyCoo /\ values = <<>> /\ criteria = 0
  /\ etype_offset = <<>> /\ het = <<>>
  /\ oret = [row |-> <<>>, col |-> <<>>, data |-> <<>>,
             lhs_indices |-> <<>>, rhs_indices |-> <<>>]
  /\ opc = "off"
  /\ coo_num_picks = Unwritten
  /\ atomic = "none" /\ addr = 0 /\ addr0 = 0 /\ callers = <<>>
  /\ senders = [s \in 1..MaxSenders |-> [pc |-> "idle", sent |-> 0]]
  /\ listener = <<>>
  /\ inq = [p \in 1..MaxSenders |-> <<>>]
  /\ ops = [p \in 1..MaxSenders |-> <<>>]
  /\ wait_thread_ = "none" /\ pipe_prom = <<>> /\ checkConnect = <<>>
  /\ listen_booted_ = FALSE /\ num_connected_ = 0 /\ pipes_ = <<>>
  /\ queue_ = <<>> /\ received = <<>>
  /\ num_sender = 0 /\ blocking = FALSE /\ wait_pc = "idle"
  /\ total_sent = 0

\* capacity: power of two, at least twice the input length
Capacity(n) == Pow2AtLeast(1, 2 * n)
_mask == Capacity(Len(ids)) - 1

\* input ids: 0, 1 and the table capacities in use, so that distinct ids
\* share an initial probe position (0 and every capacity hash to slot 0)
IdDomain == {0, 1} \cup {Capacity(n) : n \in 1..MaxNumIds}

\* parallel_for(0, n, grain_size, ...): worker t owns [ChunkBegin, ChunkEnd)
NumChunks(n) == (n + grain_size - 1) \div grain_size
ChunkBegin(t) == t * grain_size
ChunkEnd(t, n) == Min((t + 1) * grain_size, n)

\* __sync_val_compare_and_swap: returns the old content; stores newval only
\* if the old content is oldval
CAS_always_succeeds(cur, oldval, newval) == [ret |-> oldval, mem |-> newval]
CAS_blind_store(cur, oldval, newval) == [ret |-> cur, mem |-> newval]
CAS(cur, oldval, newval) ==
  [ret |-> cur, mem |-> IF cur = oldval THEN newval ELSE cur]

\* initial probe position and probe stride of an id (double hashing; the
\* stride is odd, so a probe sequence visits every slot of the table)
Hash(id) == id % (_mask + 1)
Stride(id) == (2 * id + 1) % (_mask + 1)
next(pos, delta) == (pos + delta) % (_mask + 1)

RECURSIVE Probe(_, _, _, _)
\* the slot where a probe for id ends: the first slot holding id or the
\* empty key; -1 if the whole table was visited in vain
Probe(h, id, pos, steps) ==
  IF steps > _mask + 1 THEN -1
  ELSE IF h[pos].key = id \/ h[pos].key = kEmptyKey THEN pos
  ELSE Probe(h, id, next(pos, Stride(id)), steps + 1)

\* map(id, default_val)
map(h, id, default_val) ==
  LET p == Probe(h, id, Hash(id), 0)
  IN IF p = -1 \/ h[p].key # id THEN default_val ELSE h[p].value

\* set_value(key, v); the key must exist
set_value(h, key, v) ==
  LET p == Probe(h, key, Hash(key), 0)
  IN IF p = -1 \/ h[p].key # key THEN h ELSE [h EXCEPT ![p].value = v]

Workers == 0..(NumChunks(Len(ids)) - 1)

\* the worker's next position after finishing position i in a phase
Advance(w, t, nextSt) ==
  IF w.i + 1 = ChunkEnd(t, Len(ids))
  THEN [w EXCEPT !.st = nextSt, !.i = w.i + 1]
  ELSE [w EXCEPT !.i = w.i + 1, !.pos = Hash(ids[w.i + 2])]

InitHash ==
  /\ PickIdle
  /\ KernelIdle
  /\ ids \in {s \in SeqsUpTo(IdDomain, MaxNumIds) : Len(s) >= 1}
  /\ hmap = [p \in 0..(Capacity(Len(ids)) - 1) |-> [key |-> kEmptyKey, value |-> Unwritten]]
  /\ valid = [i \in 1..Len(ids) |-> 0]
  /\ wk = [t \in 0..(NumChunks(Len(ids)) - 1) |->
             [st |-> "insert", i |-> ChunkBegin(t),
              pos |-> Hash(ids[ChunkBegin(t) + 1]), cnt |-> 0]]
  /\ block_offset = [t \in 1..(NumChunks(Len(ids)) + 1) |-> 0]
  /\ unique_ids = [i \in 1..Len(ids) |-> Unwritten]
  /\ hpc = "insert"
  /\ ret = Unwritten
  /\ lookup = <<>>
  /\ qids = <<>>
  /\ mdflt = Unwritten
  /\ new_ids = <<>>
  /\ pending = {}

\* one attempt_insert_at of insert_cas by worker t on its current position
attempt_insert_at(t) ==
  /\ hpc = "insert"
  /\ wk[t].st = "insert"
  /\ LET w == wk[t]
         key == ids[w.i + 1]
         r == CAS(hmap[w.pos].key, kEmptyKey, key)
     IN /\ hmap' = [hmap EXCEPT ![w.pos].key = r.mem]
        /\ IF r.ret = kEmptyKey
           THEN /\ valid' = [valid EXCEPT ![w.i + 1] = 1]
                /\ wk' = [wk EXCEPT ![t] = Advance([w EXCEPT !.cnt = w.cnt + 1], t, "barrier")]
           ELSE IF r.ret = key
           THEN /\ valid' = valid
                /\ wk' = [wk EXCEPT ![t] = Advance(w, t, "barrier")]
           ELSE /\ valid' = valid
                /\ wk' = [wk EXCEPT ![t].pos = next(w.pos, Stride(key))]
  /\ UNCHANGED <<pvars, kvars>>
  /\ UNCHANGED <<ids, block_offset, unique_ids, hpc, ret, lookup, qids, mdflt, new_ids, pending>>

\* after the first parallel loop: exclusive sum of the blocks' counts
fillInIds_sum ==
  /\ hpc = "insert"
  /\ \A t \in Workers : wk[t].st = "barrier"
  /\ block_offset' = [b \in 1..(NumChunks(Len(ids)) + 1) |->
                        SumTo([t \in Workers |-> wk[t].cnt], b - 1)]
  /\ wk' = [t \in Workers |->
              [wk[t] EXCEPT !.st = "fill", !.i = ChunkBegin(t),
                            !.pos = SumTo([u \in Workers |-> wk[u].cnt], t)]]
  /\ hpc' = "fill"
  /\ UNCHANGED <<pvars, kvars>>
  /\ UNCHANGED <<ids, hmap, valid, unique_ids, ret, lookup, qids, mdflt, new_ids, pending>>

\* second parallel loop: worker t handles its current position
fillInIds_write(t) ==
  /\ hpc = "fill"
  /\ wk[t].st = "fill"
  /\ LET w == wk[t]
         id == ids[w.i + 1]
         fin == w.i + 1 = ChunkEnd(t, Len(ids))
         st2 == IF fin THEN "done" ELSE "fill"
     IN IF valid[w.i + 1] = 1
        THEN /\ unique_ids' = [unique_ids EXCEPT ![w.pos + 1] = id]
             /\ hmap' = set_value(hmap, id, w.pos)
             /\ wk' = [wk EXCEPT ![t] = [w EXCEPT !.st = st2, !.i = w.i + 1, !.pos = w.pos + 1]]
        ELSE /\ UNCHANGED <<unique_ids, hmap>>
             /\ wk' = [wk EXCEPT ![t] = [w EXCEPT !.st = st2, !.i = w.i + 1]]
  /\ UNCHANGED <<pvars, kvars>>
  /\ UNCHANGED <<ids, valid, block_offset, hpc, ret, lookup, qids, mdflt, new_ids, pending>>

\* Init returns unique_ids->shape[0]
Init_return ==
  /\ hpc = "fill"
  /\ \A t \in Workers : wk[t].st = "done"
  /\ hpc' = "ready"
  /\ ret' = block_offset[NumChunks(Len(ids)) + 1]
  /\ UNCHANGED <<pvars, kvars>>
  /\ UNCHANGED <<ids, hmap, valid, wk, block_offset, unique_ids, lookup, qids, mdflt, new_ids, pending>>

DefaultVals == {-1, -3}
\* ids that may be looked up: every id of the domain and one beyond it
QueryDomain == IdDomain \cup {Capacity(MaxNumIds) + 1}

\* a single lookup map(id, default_val) on the built map
map_call ==
  /\ hpc = "ready"
  /\ \E id \in QueryDomain, d \in DefaultVals :
       lookup' = [id |-> id, dflt |-> d, res |-> map(hmap, id, d)]
  /\ UNCHANGED <<pvars, kvars>>
  /\ UNCHANGED <<ids, hmap, valid, wk, block_offset, unique_ids, hpc, ret, qids, mdflt, new_ids, pending>>

\* the lists Map is asked to relabel: the built list itself, and the built
\* list followed by an id that was never inserted
MapInputs == {ids, Append(ids, Capacity(MaxNumIds) + 1)}

\* Map(ids, default_val, new_ids) starts: the input is split into chunks
Map_start ==
  /\ hpc = "ready"
  /\ \E q \in MapInputs, d \in DefaultVals :
       /\ qids' = q
       /\ mdflt' = d
       /\ new_ids' = [i \in 1..Len(q) |-> Unwritten]
       /\ pending' = 0..(NumChunks(Len(q)) - 1)
  /\ hpc' = "mapping"
  /\ UNCHANGED <<pvars, kvars>>
  /\ UNCHANGED <<ids, hmap, valid, wk, block_offset, unique_ids, ret, lookup>>

\* one parallel chunk of Map
Map_chunk(t) ==
  /\ hpc = "mapping"
  /\ t \in pending
  /\ new_ids' = [i \in 1..Len(qids) |->
                   IF ChunkBegin(t) <= i - 1 /\ i - 1 < ChunkEnd(t, Len(qids))
                   THEN map(hmap, qids[i], mdflt)
                   ELSE new_ids[i]]
  /\ pending' = pending \ {t}
  /\ UNCHANGED <<pvars, kvars>>
  /\ UNCHANGED <<ids, hmap, valid, wk, block_offset, unique_ids, hpc, ret, lookup, qids, mdflt>>

Map_return ==
  /\ hpc = "mapping"
  /\ pending = {}
  /\ hpc' = "mapped"
  /\ UNCHANGED <<pvars, kvars>>
  /\ UNCHANGED <<ids, hmap, valid, wk, block_offset, unique_ids, ret, lookup, qids, mdflt, new_ids, pending>>


HashIdle ==
  /\ ids = <<>> /\ hmap = <<>> /\ valid = <<>> /\ wk = <<>>
  /\ block_offset = <<>> /\ unique_ids = <<>> /\ hpc = "off"
  /\ ret = Unwritten /\ lookup = <<>> /\ qids = <<>> /\ mdflt = Unwritten
  /\ new_ids = <<>> /\ pending = {}

(***************************************************************************)
(*                 2. Row-wise pick: sampling and top-k                    *)
(* One queried row [off, off+len) of an adjacency with off+len entries.    *)
(* Phase 1 asks the num-picks function how many positions the row gets,    *)
(* phase 2 calls the pick function, which writes the positions to out_idx. *)
(***************************************************************************)
Offsets == {0, 1}
SampleDomain == -1..MaxSamples
\* no edge-id array, or one that numbers the nnz entries backwards
DataArrays(nnz) == {<<>>, [p \in 1..nnz |-> nnz - p]}
ProbArrays(nnz) == [1..nnz -> {0, 5}]

Injective(s) == \A a, b \in DOMAIN s : a # b => s[a] # s[b]

\* the edge id of adjacency position p: data ? data[p] : p
Eid_position(dat, p) == p
Eid(dat, p) == IF dat = <<>> THEN p ELSE dat[p + 1]

\* DoubleSlice: array[idx[off : off + len]]
DoubleSlice(array, idx_data, o, l) ==
  [j \in 1..l |-> array[Eid(idx_data, o + j - 1) + 1]]

\* What a read through a reference yields after the referenced object's
\* lifetime has ended: any value of its type, the original one included.
DanglingRead(type) == type

\* RandomEngine::UniformChoice(num, population, out, replace): num indices
\* below population, pairwise different unless replace; no result when the
\* request cannot be met
UniformChoice(num, population, rp) ==
  {c \in [1..num -> 0..(population - 1)] : rp \/ Injective(c)}

\* RandomEngine::Choice(num, prob, out, replace): num indices of prob drawn
\* in proportion to their weight, so never one of weight zero; pairwise
\* different unless replace; no result when the request cannot be met
Choice(num, pr, rp) ==
  {c \in [1..num -> {j \in 0..(Len(pr) - 1) : pr[j + 1] > 0}] : rp \/ Injective(c)}

\* the closure of GetSamplingUniformNumPicksFn, with the values it reads for
\* its captured num_samples and replace
UniformNumPicksFn(ns, rp, l) ==
  IF ns = -1 THEN l
  ELSE IF rp THEN (IF l = 0 THEN 0 ELSE ns)
  ELSE Min(l, ns)

\* the closure of GetSamplingUniformPickFn: the possible contents of out_idx
UniformPickFn_no_offset(ns, rp, o, l, np) ==
  IF ns = -1 \/ (~rp /\ l = np)
  THEN {[j \in 1..l |-> j - 1]}
  ELSE {[j \in 1..np |-> c[j]] : c \in UniformChoice(np, l, rp)}
UniformPickFn(ns, rp, o, l, np) ==
  IF ns = -1 \/ (~rp /\ l = np)
  THEN {[j \in 1..l |-> o + j - 1]}
  ELSE {[j \in 1..np |-> c[j] + o] : c \in UniformChoice(np, l, rp)}

\* positions j of the row whose edge has positive probability
PositiveAt(pr, dat, o, l) == {j \in 0..(l - 1) : pr[Eid(dat, o + j) + 1] > 0}

\* the closure of GetSamplingNumPicksFn, with the values it reads for its
\* captured num_samples, prob and replace
NumPicksFn(ns, pr, rp, dat, o, l) ==
  LET num_possible_picks == Cardinality(PositiveAt(pr, dat, o, l))
  IN IF ns = -1 THEN num_possible_picks
     ELSE IF rp THEN (IF l = 0 THEN 0 ELSE ns)
     ELSE Min(ns, num_possible_picks)

\* the j-th smallest element of a set of integers, j from 1
RECURSIVE Nth(_, _)
Nth(S, j) ==
  LET m == CHOOSE x \in S : \A y \in S : x <= y
  IN IF j = 1 THEN m ELSE Nth(S \ {m}, j - 1)

\* the closure of GetSamplingPickFn: the possible contents of out_idx; the
\* empty set when CHECK_EQ fails or the sampler has no result
PickFn(ns, pr, rp, dat, o, l, np) ==
  IF ns = -1 \/ (~rp /\ l = np)
  THEN LET pos == PositiveAt(pr, dat, o, l)
       IN IF Cardinality(pos) = np
          THEN {[i \in 1..np |-> o + Nth(pos, i)]}
          ELSE {}
  ELSE {[j \in 1..np |-> c[j] + o] :
          c \in Choice(np, DoubleSlice(pr, dat, o, l), rp)}

InitPick ==
  /\ HashIdle
  /\ KernelIdle
  /\ policy \in {"uniform", "prob"}
  /\ off \in Offsets
  /\ len \in 0..MaxLen
  /\ data \in DataArrays(off + len)
  /\ prob \in IF policy = "prob" THEN ProbArrays(off + len) ELSE {<<>>}
  /\ num_samples \in SampleDomain
  /\ replace \in BOOLEAN
  /\ weight = <<>> /\ k = 0 /\ ascending = FALSE
  /\ num_picks = 0 /\ out_idx = <<>> /\ ppc = "start"

\* the row of the worked example: probabilities [0, 0, 5, 0], one sample,
\* no replacement
InitPickExample ==
  /\ HashIdle
  /\ KernelIdle
  /\ policy = "prob" /\ off = 0 /\ len = 4 /\ data = <<>>
  /\ prob = <<0, 0, 5, 0>> /\ num_samples = 1 /\ replace = FALSE
  /\ weight = <<>> /\ k = 0 /\ ascending = FALSE
  /\ num_picks = 0 /\ out_idx = <<>> /\ ppc = "start"

\* CSRRowWiseSamplingUniform, phase 1. num_picks_fn captured num_samples and
\* replace by reference ([&]); they were parameters of
\* GetSamplingUniformNumPicksFn, which has returned.
SamplingUniform_NumPicks ==
  /\ policy = "uniform" /\ ppc = "start"
  /\ \E ns \in DanglingRead(SampleDomain), rp \in DanglingRead(BOOLEAN) :
       num_picks' = UniformNumPicksFn(ns, rp, len)
  /\ ppc' = "counted"
  /\ UNCHANGED <<hvars, kvars>>
  /\ UNCHANGED <<policy, off, len, data, prob, num_samples, replace, weight,
                 k, ascending, out_idx>>

\* CSRRowWiseSamplingUniform, phase 2. pick_fn captured by value.
SamplingUniform_Pick ==
  /\ policy = "uniform" /\ ppc = "counted"
  /\ LET outs == UniformPickFn(num_samples, replace, off, len, num_picks)
     IN IF outs = {}
        THEN ppc' = "error" /\ out_idx' = out_idx
        ELSE ppc' = "picked" /\ out_idx' \in outs
  /\ UNCHANGED <<hvars, kvars>>
  /\ UNCHANGED <<policy, off, len, data, prob, num_samples, replace, weight,
                 k, ascending, num_picks>>

\* CSRRowWiseSampling / COORowWiseSampling, phase 1. num_picks_fn captured
\* num_samples, prob and replace by reference ([&]).
Sampling_NumPicks ==
  /\ policy = "prob" /\ ppc = "start"
  /\ \E ns \in DanglingRead(SampleDomain), rp \in DanglingRead(BOOLEAN),
        pr \in DanglingRead(ProbArrays(off + len)) :
       num_picks' = NumPicksFn(ns, pr, rp, data, off, len)
  /\ ppc' = "counted"
  /\ UNCHANGED <<hvars, kvars>>
  /\ UNCHANGED <<policy, off, len, data, prob, num_samples, replace, weight,
                 k, ascending, out_idx>>

\* CSRRowWiseSampling / COORowWiseSampling, phase 2. pick_fn captured
\* num_samples, prob and replace by reference ([&]).
Sampling_Pick ==
  /\ policy = "prob" /\ ppc = "counted"
  /\ \E ns \in DanglingRead(SampleDomain), rp \in DanglingRead(BOOLEAN),
        pr \in DanglingRead(ProbArrays(off + len)) :
       LET outs == PickFn(ns, pr, rp, data, off, len, num_picks)
       IN IF outs = {}
          THEN ppc' = "error" /\ out_idx' = out_idx
          ELSE ppc' = "picked" /\ out_idx' \in outs
  /\ UNCHANGED <<hvars, kvars>>
  /\ UNCHANGED <<policy, off, len, data, prob, num_samples, replace, weight,
                 k, ascending, num_picks>>

(* -------------------------- tag-biased sampling ------------------------- *)
\* the closure of GetSamplingBiasedPickFn: the possible contents of out_idx.
\* RandomEngine::BiasedChoice(num_samples, tag_offset, bias, out, replace)
\* writes num_samples indices of the row, pairwise different unless replace;
\* when that request cannot be met the cells hold no picked index. The loop
\* that follows adds off to out_idx[0 .. num_samples - 1] in either case.
BiasedPickFn(ns, rp, o, l) ==
  IF UniformChoice(ns, l, rp) # {}
  THEN {[j \in 1..ns |-> c[j] + o] : c \in UniformChoice(ns, l, rp)}
  ELSE [1..ns -> {Unwritten + o, -1 + o}]

\* CSRRowWiseSamplingBiased is called for one queried row
InitBiased ==
  /\ HashIdle
  /\ KernelIdle
  /\ policy = "biased"
  /\ off \in Offsets
  /\ len \in 0..MaxLen
  /\ num_samples \in SampleDomain
  /\ replace \in BOOLEAN
  /\ data = <<>> /\ prob = <<>> /\ weight = <<>> /\ k = 0 /\ ascending = FALSE
  /\ num_picks = 0 /\ out_idx = <<>> /\ ppc = "start"

\* CSRRowWiseSamplingBiased, phase 1: the closure of
\* GetSamplingUniformNumPicksFn, which captured num_samples and replace by
\* reference ([&])
SamplingBiased_NumPicks ==
  /\ policy = "biased" /\ ppc = "start"
  /\ \E ns \in DanglingRead(SampleDomain), rp \in DanglingRead(BOOLEAN) :
       num_picks' = UniformNumPicksFn(ns, rp, len)
  /\ ppc' = "counted"
  /\ UNCHANGED <<hvars, kvars>>
  /\ UNCHANGED <<policy, off, len, data, prob, num_samples, replace, weight,
                 k, ascending, out_idx>>

\* CSRRowWiseSamplingBiased, phase 2. pick_fn captured by value.
SamplingBiased_Pick ==
  /\ policy = "biased" /\ ppc = "counted"
  /\ out_idx' \in BiasedPickFn(num_samples, replace, off, len)
  /\ ppc' = "picked"
  /\ UNCHANGED <<hvars, kvars>>
  /\ UNCHANGED <<policy, off, len, data, prob, num_samples, replace, weight,
                 k, ascending, num_picks>>

(* ------------------- uniform sampling, COO entry point ----------------- *)
\* COORowWiseSamplingUniform, phase 1, on the adjacency CSRRowWiseSamplingUniform
\* is given. It hands COORowWisePick the pick function and no num-picks
\* function; the row gets the number of picks of uniform sampling.
COOSamplingUniform_NumPicks ==
  /\ policy = "uniform" /\ ppc # "off"
  /\ coo_num_picks = Unwritten
  /\ coo_num_picks' = UniformNumPicksFn(num_samples, replace, len)
  /\ UNCHANGED <<hvars, pvars, bvars, xvars, mvars, cvars, uvars, ovars,
                 avars, tvars>>

(* ------------------------------ top-k ---------------------------------- *)
WeightArrays(nnz) == [1..nnz -> {10, 20}]

\* the weight the comparison reads for position p: wdata[data[p]], or
\* wdata[p] when there is no edge-id array
WeightAt(w, dat, p) == w[Eid(dat, p) + 1]

\* compare_fn(i, j) of GetTopkPickFn
compare_fn(asc, w, dat, i, j) ==
  IF asc THEN WeightAt(w, dat, i) < WeightAt(w, dat, j)
  ELSE WeightAt(w, dat, i) > WeightAt(w, dat, j)

\* std::iota followed by std::sort(idx, compare_fn): every arrangement of
\* the row's positions that is ordered by compare_fn; std::sort leaves the
\* order of equivalent elements unspecified
SortedIdx(asc, w, dat, o, l) ==
  {idx \in [1..l -> o..(o + l - 1)] :
     /\ Injective(idx)
     /\ \A a, b \in 1..l : a < b => ~compare_fn(asc, w, dat, idx[b], idx[a])}

\* what idx[j] yields for j >= idx.size(): some value that is no part of
\* the vector
OutOfBoundsRead(o, l) == {-1, o + l}

\* the closure of GetTopkPickFn: the possible contents of out_idx after
\* "for (j = 0; j < k; ++j) out_idx[j] = idx[j]"
TopkPickFn(kk, asc, w, dat, o, l) ==
  {[j \in 1..kk |-> IF j <= l THEN idx[j] ELSE g[j]] :
     idx \in SortedIdx(asc, w, dat, o, l),
     g \in [(l + 1)..kk -> OutOfBoundsRead(o, l)]}

\* CSRRowWisePick / COORowWisePick as the top-k entry points use it: the
\* row gets k output positions and the pick function is called for it
RowWisePickCalls(kk, l) == TRUE

InitTopk ==
  /\ HashIdle
  /\ KernelIdle
  /\ policy = "topk"
  /\ off \in Offsets
  /\ len \in 0..MaxLen
  /\ data \in DataArrays(off + len)
  /\ weight \in WeightArrays(off + len)
  /\ k \in 0..(MaxLen + 1)
  /\ ascending \in BOOLEAN
  /\ prob = <<>> /\ num_samples = 0 /\ replace = FALSE
  /\ num_picks = 0 /\ out_idx = <<>> /\ ppc = "start"

\* the row of the worked example: weights [3.0, 1.0, 4.0, 1.5], k = 2,
\* descending
InitTopkExample ==
  /\ HashIdle
  /\ KernelIdle
  /\ policy = "topk" /\ off = 0 /\ len = 4 /\ data = <<>>
  /\ weight = <<30, 10, 40, 15>> /\ k = 2 /\ ascending = FALSE
  /\ prob = <<>> /\ num_samples = 0 /\ replace = FALSE
  /\ num_picks = 0 /\ out_idx = <<>> /\ ppc = "start"

\* CSRRowWiseTopk / COORowWiseTopk, phase 1: every row gets k picks
Topk_NumPicks ==
  /\ policy = "topk" /\ ppc = "start"
  /\ num_picks' = k
  /\ ppc' = "counted"
  /\ UNCHANGED <<hvars, kvars>>
  /\ UNCHANGED <<policy, off, len, data, prob, num_samples, replace, weight,
                 k, ascending, out_idx>>

\* CSRRowWiseTopk / COORowWiseTopk, phase 2: the pick function runs
Topk_Pick ==
  /\ policy = "topk" /\ ppc = "counted"
  /\ RowWisePickCalls(k, len)
  /\ out_idx' \in TopkPickFn(k, ascending, weight, data, off, len)
  /\ ppc' = "picked"
  /\ UNCHANGED <<hvars, kvars>>
  /\ UNCHANGED <<policy, off, len, data, prob, num_samples, replace, weight,
                 k, ascending, num_picks>>

(***************************************************************************)
(*            3. Broadcast-shape inference (kernel/binary_reduce.cc)       *)
(* lhs_dims and rhs_dims are whole array shapes: axis 0 counts nodes or    *)
(* edges, the axes after it are the feature ("trailing") shape.            *)
(***************************************************************************)
\* the feature shapes tried; axis 0 always has extent 2, the inference
\* never reads it
TrailShapes == SeqsUpTo(0..MaxDim, MaxTrail)

Trail(dims) == Tail(dims)

\* std::vector<int64_t> ComputeStride(shape)
RECURSIVE StrideAt(_, _)
StrideAt(shape, i) ==
  IF i >= Len(shape) THEN 1 ELSE StrideAt(shape, i + 1) * shape[i + 1]

ComputeStride(shape) == [i \in 1..Len(shape) |-> StrideAt(shape, i)]

\* bool HasBcast(lhs, rhs); i runs over the 0-based axes 1..ndim-1
HasBcast(lhs, rhs) ==
  \/ Len(lhs) # Len(rhs)
  \/ \E i \in 1..(Len(lhs) - 1) : lhs[i + 1] # rhs[i + 1]

\* bool IsValidBinaryOpShape(lhs, rhs)
IsValidBinaryOpShape(lhs, rhs) ==
  /\ Len(lhs) = Len(rhs)
  /\ \A i \in 1..(Len(lhs) - 1) : lhs[i + 1] = rhs[i + 1]

\* dl / dr of iteration j: the j-th axis from the right, 1 once the shape
\* has run out of feature axes
AxisFromRight(dims, j) ==
  IF Len(dims) - 1 - j < 1 THEN 1 ELSE dims[Len(dims) - j]

max_ndim == Max(Len(lhs_dims), Len(rhs_dims)) - 1

OutDim_lhs(dl, dr) == dl
\* std::max(dl, dr)
OutDim(dl, dr) == Max(dl, dr)

AccumNext_overwrite(acc, dl) == dl
\* the else branch of the loop: start or extend the run of equal axes
AccumNext(acc, dl) == IF acc = 0 THEN dl ELSE acc * dl

\* push the pending run, if any, on the three merged shapes
FlushAccum(inf, acc) ==
  IF acc # 0
  THEN [inf EXCEPT !.lhs_shape = Append(@, acc),
                   !.rhs_shape = Append(@, acc),
                   !.out_shape = Append(@, acc)]
  ELSE inf

\* CalcBcastInfo(lhs, rhs) is entered with two arrays
CalcBcastInfo_call ==
  /\ bpc = "off"
  /\ \E shapes \in (TrailShapes \X TrailShapes) \cup {<<(<<4, 1>>), (<<1, 5>>)>>} :
       /\ lhs_dims' = <<2>> \o shapes[1]
       /\ rhs_dims' = <<2>> \o shapes[2]
  /\ bpc' = "loop"
  /\ UNCHANGED <<bj, accum, info, lhs_add, rhs_add>>
  /\ UNCHANGED <<hvars, pvars, xvars, mvars, cvars, uvars, nvars>>

\* one iteration of the loop of CalcBcastInfo
CalcBcastInfo_step ==
  /\ bpc = "loop"
  /\ bj < max_ndim
  /\ LET dl == AxisFromRight(lhs_dims, bj)
         dr == AxisFromRight(rhs_dims, bj)
     IN IF dl # dr /\ dl # 1 /\ dr # 1
        THEN \* LOG(FATAL) << "Invalid broadcasting between feature shapes"
             /\ bpc' = "error"
             /\ UNCHANGED <<bj, accum, info>>
        ELSE /\ bpc' = "loop"
             /\ bj' = bj + 1
             /\ IF dl # dr
                THEN /\ accum' = 0
                     /\ info' =
                          LET f == FlushAccum(info, accum)
                          IN [f EXCEPT
                                !.lhs_shape = Append(@, dl),
                                !.rhs_shape = Append(@, dr),
                                !.out_shape = Append(@, OutDim(dl, dr)),
                                !.real_out_shape = Append(@, OutDim(dl, dr))]
                ELSE /\ accum' = AccumNext(accum, dl)
                     /\ info' = [info EXCEPT
                                   !.real_out_shape = Append(@, OutDim(dl, dr))]
  /\ UNCHANGED <<lhs_dims, rhs_dims, lhs_add, rhs_add>>
  /\ UNCHANGED <<hvars, pvars, xvars, mvars, cvars, uvars, nvars>>

\* after the loop: flush, reverse the four lists, compute the strides
CalcBcastInfo_return ==
  /\ bpc = "loop"
  /\ bj >= max_ndim
  /\ LET f == FlushAccum(info, accum)
         ls == Reverse(f.lhs_shape)
         rs == Reverse(f.rhs_shape)
         os == Reverse(f.out_shape)
     IN info' = [lhs_shape |-> ls, rhs_shape |-> rs, out_shape |-> os,
                 real_out_shape |-> Reverse(f.real_out_shape),
                 lhs_stride |-> ComputeStride(ls),
                 rhs_stride |-> ComputeStride(rs),
                 out_stride |-> ComputeStride(os)]
  /\ accum' = 0
  /\ bpc' = "done"
  /\ UNCHANGED <<lhs_dims, rhs_dims, bj, lhs_add, rhs_add>>
  /\ UNCHANGED <<hvars, pvars, xvars, mvars, cvars, uvars, nvars>>

\* InferBinaryFeatureShape(lhs, rhs): the real_out_shape of CalcBcastInfo
InferBinaryFeatureShape == info.real_out_shape

\* offset of flat output coordinate tx on the side with the given merged
\* shape: tx is split by the out strides into one index per axis, and the
\* indices are put together again with the side's strides, an axis of
\* extent 1 on that side always at index 0
RECURSIVE BcastOffsetFrom(_, _, _, _, _, _)
BcastOffsetFrom(tx, d, out_shape, out_stride, shape, stride) ==
  IF d > Len(out_shape) THEN 0
  ELSE LET idx == (tx \div out_stride[d]) % out_shape[d]
           use == IF shape[d] = 1 THEN 0 ELSE idx
       IN use * stride[d]
          + BcastOffsetFrom(tx, d + 1, out_shape, out_stride, shape, stride)

BcastOffset(tx, out_shape, out_stride, shape, stride) ==
  BcastOffsetFrom(tx, 1, out_shape, out_stride, shape, stride)

\* BinaryOpReduce after the sanity checks: the broadcast path reads at the
\* broadcast offsets, the direct path reads both sides at tx
BinaryOpReduce_dispatch ==
  /\ bpc = "done"
  /\ IF HasBcast(lhs_dims, rhs_dims)
     THEN LET out_len == Prod(info.out_shape)
          IN /\ lhs_add' = [t \in 1..out_len |->
                              BcastOffset(t - 1, info.out_shape,
                                          info.out_stride, info.lhs_shape,
                                          info.lhs_stride)]
             /\ rhs_add' = [t \in 1..out_len |->
                              BcastOffset(t - 1, info.out_shape,
                                          info.out_stride, info.rhs_shape,
                                          info.rhs_stride)]
     ELSE LET out_len == Prod(Trail(lhs_dims))
          IN /\ IsValidBinaryOpShape(lhs_dims, rhs_dims)
             /\ lhs_add' = [t \in 1..out_len |-> t - 1]
             /\ rhs_add' = [t \in 1..out_len |-> t - 1]
  /\ bpc' = "run"
  /\ UNCHANGED <<lhs_dims, rhs_dims, bj, accum, info>>
  /\ UNCHANGED <<hvars, pvars, xvars, mvars, cvars, uvars, nvars>>


(***************************************************************************)
(*       4. Entry points of binary reduce (kernel/binary_reduce.cc)        *)
(***************************************************************************)
EntryPoints == {"BinaryOpReduce", "BackwardLhsBinaryOpReduce",
                "BackwardRhsBinaryOpReduce", "CopyReduce",
                "BackwardCopyReduce"}

\* the data and gradient arrays whose context the entry point compares
\* with the graph's
DataArgs(f) ==
  CASE f = "BinaryOpReduce" -> {"lhs_data", "rhs_data", "out_data"}
    [] f = "BackwardLhsBinaryOpReduce" ->
         {"lhs_data", "rhs_data", "out_data", "grad_out_data", "grad_lhs_data"}
    [] f = "BackwardRhsBinaryOpReduce" ->
         {"lhs_data", "rhs_data", "out_data", "grad_out_data", "grad_rhs_data"}
    [] f = "CopyReduce" -> {"in_data", "out_data"}
    [] f = "BackwardCopyReduce" ->
         {"in_data", "out_data", "grad_out_data", "grad_in_data"}

\* the mapping arrays, compared only when they are not none arrays
MappingArgs(f) ==
  IF f \in {"CopyReduce", "BackwardCopyReduce"}
  THEN {"in_mapping", "out_mapping"}
  ELSE {"lhs_mapping", "rhs_mapping", "out_mapping"}

\* the array the dispatched kernel writes
OutputArg(f) ==
  CASE f = "BinaryOpReduce" -> "out_data"
    [] f = "BackwardLhsBinaryOpReduce" -> "grad_lhs_data"
    [] f = "BackwardRhsBinaryOpReduce" -> "grad_rhs_data"
    [] f = "CopyReduce" -> "out_data"
    [] f = "BackwardCopyReduce" -> "grad_in_data"

SanityCheck_data_only(f) == \A a \in DataArgs(f) : actx[a] = gctx
\* the CHECK_EQs at the head of entry point f all pass
SanityCheck(f) ==
  /\ \A a \in DataArgs(f) : actx[a] = gctx
  /\ \A a \in MappingArgs(f) : actx[a] # "none" => actx[a] = gctx

\* an entry point is called on a graph and arrays in some contexts
Entry_call ==
  /\ xpc = "off"
  /\ fn' \in EntryPoints
  /\ gctx' \in {"cpu", "gpu"}
  /\ actx' \in {g \in [DataArgs(fn') \cup MappingArgs(fn') -> {"cpu", "gpu", "none"}] :
                  \A a \in DataArgs(fn') : g[a] # "none"}
  /\ xpc' = "called"
  /\ UNCHANGED written
  /\ UNCHANGED <<hvars, pvars, bvars, mvars, cvars, uvars, nvars>>

\* entry point f up to DGL_XPU_SWITCH: a failing CHECK_EQ throws
Entry(f) ==
  /\ xpc = "called"
  /\ fn = f
  /\ xpc' = IF SanityCheck(f) THEN "dispatched" ELSE "failed"
  /\ UNCHANGED <<fn, gctx, actx, written>>
  /\ UNCHANGED <<hvars, pvars, bvars, mvars, cvars, uvars, nvars>>

BinaryOpReduce == Entry("BinaryOpReduce")
BackwardLhsBinaryOpReduce == Entry("BackwardLhsBinaryOpReduce")
BackwardRhsBinaryOpReduce == Entry("BackwardRhsBinaryOpReduce")
CopyReduce == Entry("CopyReduce")
BackwardCopyReduce == Entry("BackwardCopyReduce")

\* the kernel DGL_XPU_SWITCH dispatched runs and writes its output array
Kernel_run ==
  /\ xpc = "dispatched"
  /\ written' = written \cup {OutputArg(fn)}
  /\ xpc' = "done"
  /\ UNCHANGED <<fn, gctx, actx>>
  /\ UNCHANGED <<hvars, pvars, bvars, mvars, cvars, uvars, nvars>>

(***************************************************************************)
(*                5. SpMM over CSR (array/cuda/spmm.cuh)                   *)
(* Two source nodes with one feature element each (out_len = 1), BinaryOp  *)
(* copy-lhs, ReduceOp sum, no edge map (UseIdx false), no broadcast.       *)
(***************************************************************************)
\* indptr starts at 0 and never decreases; indices holds indptr's last
\* entry many column ids
CsrMatrices ==
  {m \in [indptr : UNION {[1..(r + 1) -> 0..MaxNnz] : r \in 1..MaxRows},
          indices : UNION {[1..n -> {0, 1}] : n \in 0..MaxNnz}] :
     /\ m.indptr[1] = 0
     /\ \A i \in 1..(Len(m.indptr) - 1) : m.indptr[i] <= m.indptr[i + 1]
     /\ Len(m.indices) = m.indptr[Len(m.indptr)]}

\* ReduceOp::zero
Zero(r) == CASE r = "sum" -> 0 [] r = "max" -> -99 [] r = "min" -> 99

\* ReduceOp::Call on a thread-local accumulator
ReduceCall(r, acc, val) ==
  CASE r = "sum" -> acc + val
    [] r = "max" -> Max(acc, val)
    [] r = "min" -> Min(acc, val)

RowLoop_first_only(ty, i, local_accum) ==
  IF i < indptr[ty + 2] THEN ufeat[indices[i + 1] + 1] ELSE local_accum
RECURSIVE RowLoop(_, _, _)
\* for (i = indptr[ty]; i < indptr[ty + 1]; ++i) of thread (ty, tx = 0):
\* out = BinaryOp::Call(uoff + lhs_add, ...) is the lhs feature of column
\* cid = indices[i]
RowLoop(ty, i, local_accum) ==
  IF i < indptr[ty + 2]
  THEN RowLoop(ty, i + 1,
               ReduceCall(reducer, local_accum, ufeat[indices[i + 1] + 1]))
  ELSE local_accum

SpMMCsr_call ==
  /\ mpc = "off"
  /\ \E m \in CsrMatrices :
       /\ indptr' = m.indptr
       /\ indices' = m.indices
       /\ out' = [r \in 1..(Len(m.indptr) - 1) |-> Unwritten]
  /\ ufeat' \in [1..2 -> {10, 20}]
  /\ reducer' = "sum"
  /\ mpc' = "csr"
  /\ UNCHANGED <<coo_row, coo_col, efeat, native_add, arg_u, arg_e, th>>
  /\ UNCHANGED <<hvars, pvars, bvars, xvars, cvars, uvars, nvars>>

\* the thread of row ty: accumulate the row, then store the accumulator
SpMMCsrKernel(ty) ==
  /\ mpc = "csr"
  /\ out[ty + 1] = Unwritten
  /\ out' = [out EXCEPT ![ty + 1] = RowLoop(ty, indptr[ty + 1], Zero(reducer))]
  /\ UNCHANGED <<indptr, indices, coo_row, coo_col, ufeat, efeat, reducer,
                 native_add, arg_u, arg_e, th, mpc>>
  /\ UNCHANGED <<hvars, pvars, bvars, xvars, cvars, uvars, nvars>>

(***************************************************************************)
(*                6. SpMM over COO (array/cuda/spmm.cuh)                   *)
(* Two source and two destination nodes, one feature element each          *)
(* (out_len = 1), BinaryOp add (use_lhs and use_rhs), no edge map: edge e   *)
(* has id e.  One worker per edge.                                          *)
(***************************************************************************)
Edges == 0..(Len(coo_row) - 1)

\* val = BinaryOp::Call(uoff + lhs_add, eoff + rhs_add) of edge e
EdgeVal(e) == ufeat[coo_row[e + 1] + 1] + efeat[e + 1]

require_arg == reducer \in {"max", "min"}

SpMMCoo_call ==
  /\ mpc = "off"
  /\ \E n \in 0..MaxEdges :
       /\ coo_row' \in [1..n -> {0, 1}]
       /\ coo_col' \in [1..n -> {0, 1}]
       /\ efeat' \in [1..n -> {0, 1}]
       /\ th' = [e \in 1..n |-> [pc |-> "idle", old |-> 0]]
  /\ ufeat' = <<1, 2>>
  /\ \E r \in {"sum", "max", "min"}, na \in BOOLEAN :
       /\ (r # "sum" => na)
       /\ reducer' = r
       /\ native_add' = na
  /\ out' = <<Unwritten, Unwritten>>
  /\ arg_u' = <<Unwritten, Unwritten>>
  /\ arg_e' = <<Unwritten, Unwritten>>
  /\ mpc' = "fill"
  /\ UNCHANGED <<indptr, indices>>
  /\ UNCHANGED <<hvars, pvars, bvars, xvars, cvars, uvars, nvars>>

\* _FillKernel(out_data, out_size, ReduceOp::zero), then the launch of
\* SpMMCooKernel on the same stream
_FillKernel ==
  /\ mpc = "fill"
  /\ out' = [d \in 1..Len(out) |-> Zero(reducer)]
  /\ th' = [e \in 1..Len(th) |-> [pc |-> "call", old |-> 0]]
  /\ mpc' = "reduce"
  /\ UNCHANGED <<indptr, indices, coo_row, coo_col, ufeat, efeat, reducer,
                 native_add, arg_u, arg_e>>
  /\ UNCHANGED <<hvars, pvars, bvars, xvars, cvars, uvars, nvars>>

\* AtomicAdd<float / double>(addr, val) of worker e on out[dst]: the
\* hardware atomicAdd where the build has one, else a plain read of *addr
\* followed, as a second step, by a plain store of the sum
AtomicAdd(e) ==
  /\ reducer = "sum"
  /\ LET d == coo_col[e + 1] + 1
     IN \/ /\ th[e + 1].pc = "call" /\ native_add
           /\ out' = [out EXCEPT ![d] = @ + EdgeVal(e)]
           /\ th' = [th EXCEPT ![e + 1].pc = "done"]
        \/ /\ th[e + 1].pc = "call" /\ ~native_add
           /\ th' = [th EXCEPT ![e + 1] = [pc |-> "store", old |-> out[d] + EdgeVal(e)]]
           /\ UNCHANGED out
        \/ /\ th[e + 1].pc = "store"
           /\ out' = [out EXCEPT ![d] = th[e + 1].old]
           /\ th' = [th EXCEPT ![e + 1].pc = "done"]

\* AtomicMax / AtomicMin (DEFINE_ATOMIC) of worker e on out[dst]: read old,
\* then atomicCAS(addr, assumed, OP(val, old)) until it finds assumed there
AtomicMaxMin(e) ==
  /\ reducer \in {"max", "min"}
  /\ LET d == coo_col[e + 1] + 1
     IN \/ /\ th[e + 1].pc = "call"
           /\ th' = [th EXCEPT ![e + 1] = [pc |-> "cas", old |-> out[d]]]
           /\ UNCHANGED out
        \/ /\ th[e + 1].pc = "cas"
           /\ LET assumed == th[e + 1].old
                  now == out[d]
              IN /\ out' = IF now = assumed
                           THEN [out EXCEPT ![d] = ReduceCall(reducer, EdgeVal(e), assumed)]
                           ELSE out
                 /\ th' = [th EXCEPT ![e + 1] =
                             [pc |-> IF now = assumed THEN "done" ELSE "cas",
                              old |-> now]]

\* a step of worker e of SpMMCooKernel: ReduceOp::Call(outoff + tx, nullptr,
\* nullptr, val, src, eid)
SpMMCooKernel(e) ==
  /\ mpc = "reduce"
  /\ e \in Edges
  /\ AtomicAdd(e) \/ AtomicMaxMin(e)
  /\ UNCHANGED <<indptr, indices, coo_row, coo_col, ufeat, efeat, reducer,
                 native_add, arg_u, arg_e, mpc>>
  /\ UNCHANGED <<hvars, pvars, bvars, xvars, cvars, uvars, nvars>>

\* SpMMCooKernel has ended; if (ReduceOp::require_arg) ArgSpMMCooKernel is
\* launched on the same stream, else SpMMCoo is complete
SpMMCooKernel_end ==
  /\ mpc = "reduce"
  /\ \A e \in Edges : th[e + 1].pc = "done"
  /\ IF require_arg
     THEN /\ mpc' = "arg"
          /\ th' = [e \in 1..Len(th) |-> [pc |-> "callarg", old |-> 0]]
     ELSE /\ mpc' = "done"
          /\ UNCHANGED th
  /\ UNCHANGED <<indptr, indices, coo_row, coo_col, ufeat, efeat, reducer,
                 native_add, out, arg_u, arg_e>>
  /\ UNCHANGED <<hvars, pvars, bvars, xvars, cvars, uvars, nvars>>

\* a step of worker e of ArgSpMMCooKernel: ReduceOp::CallArg(tx, arguoff,
\* argeoff, val, outoff[tx], src, eid) compares val with the reduced value
\* and, when they are equal, stores src in arg_u[dst] and then, as a second
\* store to the other array, eid in arg_e[dst]
ArgSpMMCooKernel(e) ==
  /\ mpc = "arg"
  /\ e \in Edges
  /\ LET d == coo_col[e + 1] + 1
     IN \/ /\ th[e + 1].pc = "callarg"
           /\ IF EdgeVal(e) = out[d]
              THEN /\ arg_u' = [arg_u EXCEPT ![d] = coo_row[e + 1]]
                   /\ th' = [th EXCEPT ![e + 1].pc = "arg_e"]
              ELSE /\ th' = [th EXCEPT ![e + 1].pc = "done"]
                   /\ UNCHANGED arg_u
           /\ UNCHANGED arg_e
        \/ /\ th[e + 1].pc = "arg_e"
           /\ arg_e' = [arg_e EXCEPT ![d] = e]
           /\ th' = [th EXCEPT ![e + 1].pc = "done"]
           /\ UNCHANGED arg_u
  /\ UNCHANGED <<indptr, indices, coo_row, coo_col, ufeat, efeat, reducer,
                 native_add, out, mpc>>
  /\ UNCHANGED <<hvars, pvars, bvars, xvars, cvars, uvars, nvars>>

\* ArgSpMMCooKernel has ended: SpMMCoo is complete
SpMMCoo_return ==
  /\ mpc = "arg"
  /\ \A e \in Edges : th[e + 1].pc = "done"
  /\ mpc' = "done"
  /\ UNCHANGED <<indptr, indices, coo_row, coo_col, ufeat, efeat, reducer,
                 native_add, out, arg_u, arg_e, th>>
  /\ UNCHANGED <<hvars, pvars, bvars, xvars, cvars, uvars, nvars>>

(***************************************************************************)
(*             7. Index compaction (sparse/matrix_ops.cc)                  *)
(* Tensors are sequences; tensor position p (0-based) is entry p + 1.      *)
(***************************************************************************)
\* the permutations sort_idx that row.sort(-1) may return with sort_row
SortPerms(t) ==
  {q \in [1..Len(t) -> 0..(Len(t) - 1)] :
     /\ Injective(q)
     /\ \A i \in 1..(Len(t) - 1) : t[q[i] + 1] <= t[q[i + 1] + 1]}

\* torch::_unique(t, /*sorted=*/false, /*return_inverse=*/true): the
\* outputs it may return, the distinct elements of t in an order the
\* library does not promise
_unique(t) == {q \in [1..Cardinality(Range(t)) -> Range(t)] : Injective(q)}

\* the inverse indices returned with output u: for every position of t the
\* position of its element in u
inverse(u, t) == [j \in 1..Len(t) |-> (CHOOSE i \in 1..Len(u) : u[i] = t[j]) - 1]

flip_identity(t) == t
\* Tensor::flip(-1)
flip(t) == Reverse(t)

\* cat({leading_indices.value(), sort_row}), or sort_row alone
UniqueInput(rw, lead, sort_idx) ==
  (IF lead.has_value THEN lead.value ELSE <<>>)
    \o [i \in 1..Len(rw) |-> rw[sort_idx[i] + 1]]

\* CompactIndices(row, leading_indices) when the sort returned sort_idx and
\* _unique returned the output u: {new_row, uniqued}
CompactIndices(rw, lead, sort_idx, u) ==
  LET n_leading_indices == IF lead.has_value THEN Len(lead.value) ELSE 0
      inv_idx == inverse(u, UniqueInput(rw, lead, sort_idx))
      rev_sort_idx == [p \in 1..Len(rw) |->
                         (CHOOSE i \in 1..Len(rw) : sort_idx[i] = p - 1) - 1]
      \* arange(uniqued.numel() - 1, -1, -1).index_select(0, slice)
      picked == [i \in 1..Len(rw) |->
                   (Len(u) - 1) - inv_idx[n_leading_indices + i]]
  IN [new_row |-> [p \in 1..Len(rw) |-> picked[rev_sort_idx[p] + 1]],
      uniqued |-> u,
      uniq_idx |-> inv_idx]

\* CompactCOO is called with a matrix whose compacted index array is row
CompactCOO_call ==
  /\ cpc = "off"
  /\ row' \in SeqsUpTo(0..(MaxRowLen - 1), MaxRowLen)
  /\ leading_indices' \in
       {[has_value |-> FALSE, value |-> <<>>]} \cup
       {[has_value |-> TRUE, value |-> l] :
          l \in {q \in SeqsUpTo(0..(MaxRowLen - 1), MaxLeading) : Injective(q)}}
  /\ cpc' = "start"
  /\ UNCHANGED <<uniqued, uniq_idx, new_row, ret_idx, new_row2, ret_idx2>>
  /\ UNCHANGED <<hvars, pvars, bvars, xvars, mvars, uvars, nvars>>

\* CompactCOO: CompactIndices, then ret_idx = uniqued.flip(-1)
CompactCOO ==
  /\ cpc = "start"
  /\ \E sort_idx \in SortPerms(row) :
       \E u \in _unique(UniqueInput(row, leading_indices, sort_idx)) :
         LET res == CompactIndices(row, leading_indices, sort_idx, u)
         IN /\ new_row' = res.new_row
            /\ uniqued' = res.uniqued
            /\ uniq_idx' = res.uniq_idx
            /\ ret_idx' = flip(res.uniqued)
  /\ cpc' = "compacted"
  /\ UNCHANGED <<row, leading_indices, new_row2, ret_idx2>>
  /\ UNCHANGED <<hvars, pvars, bvars, xvars, mvars, uvars, nvars>>

\* the compacted matrix is compacted once more, with no leading_indices
CompactCOO_again ==
  /\ cpc = "compacted"
  /\ ~leading_indices.has_value
  /\ \E sort_idx \in SortPerms(new_row) :
       \E u \in _unique(UniqueInput(new_row, [has_value |-> FALSE, value |-> <<>>], sort_idx)) :
         LET res == CompactIndices(new_row, [has_value |-> FALSE, value |-> <<>>],
                                   sort_idx, u)
         IN /\ new_row2' = res.new_row
            /\ ret_idx2' = flip(res.uniqued)
  /\ cpc' = "again"
  /\ UNCHANGED <<row, leading_indices, uniqued, uniq_idx, new_row, ret_idx>>
  /\ UNCHANGED <<hvars, pvars, bvars, xvars, mvars, uvars, nvars>>

(***************************************************************************)
(*     8. UniqueAndCompact (graphbolt cuda/unique_and_compact_impl.cu)     *)
(* num_bits is recomputed from the largest id (lines 53-74), so that the   *)
(* radix sorts order whole ids.                                            *)
(***************************************************************************)
\* ascending sequence of the elements of a set of ids
RECURSIVE SortedSeq(_)
SortedSeq(S) ==
  IF S = {} THEN <<>>
  ELSE LET lo == CHOOSE x \in S : \A y \in S : x <= y
       IN <<lo>> \o SortedSeq(S \ {lo})

\* thrust::lower_bound: 0-based position of the first element of the
\* ascending sequence t that is not below v, Len(t) when there is none
lower_bound(t, v) == Cardinality({i \in 1..Len(t) : t[i] < v})

\* what a read of t at 0-based position loc returns; t[Len(t)] is past the
\* end of the allocation and may hold the value looked for or any other
ReadAt(t, loc, wanted) == IF loc < Len(t) THEN {t[loc + 1]} ELSE {wanted, -1}

UniqueAndCompact_call ==
  /\ upc = "off"
  /\ src_ids' \in SeqsUpTo(0..MaxIdsLen, MaxIdsLen)
  /\ dst_ids' \in SeqsUpTo(0..MaxIdsLen, MaxIdsLen)
  /\ unique_dst_ids' \in {q \in SeqsUpTo(0..MaxIdsLen, MaxIdsLen) : Injective(q)}
  /\ upc' = "start"
  /\ UNCHANGED <<real_order, sorted_order, new_src_ids_loc, new_dst_ids_loc,
                 found, uresult>>
  /\ UNCHANGED <<hvars, pvars, bvars, xvars, mvars, cvars, nvars>>

\* lines 76-149: only_src = the src_ids that binary_search does not find in
\* the sorted unique_dst_ids, sorted and run-length encoded; real_order =
\* cat(unique_dst_ids, unique_only_src); sorted_order = Sort(real_order);
\* the two lower_bound calls locate every src and dst id in sorted_order
UniqueAndCompact_locate ==
  /\ upc = "start"
  /\ LET unique_only_src == SortedSeq(Range(src_ids) \ Range(unique_dst_ids))
         ro == unique_dst_ids \o unique_only_src
         so == SortedSeq(Range(ro))
     IN /\ real_order' = ro
        /\ sorted_order' = so
        /\ new_src_ids_loc' = [i \in 1..Len(src_ids) |-> lower_bound(so, src_ids[i])]
        /\ new_dst_ids_loc' = [i \in 1..Len(dst_ids) |-> lower_bound(so, dst_ids[i])]
  /\ upc' = "located"
  /\ UNCHANGED <<src_ids, dst_ids, unique_dst_ids, found, uresult>>
  /\ UNCHANGED <<hvars, pvars, bvars, xvars, mvars, cvars, nvars>>

\* EqualityFunc::operator()(i), i 1-based here:
\* sorted_order[found_locations[i]] == searched_items[i]; f[i] is what the
\* read of sorted_order returned
EqualityFunc(f, i) == f[i] = dst_ids[i]

\* new_ids of Sort(real_order): for every position of sorted_order the
\* 0-based position of that id in real_order
NewIds == [j \in 1..Len(sorted_order) |->
             (CHOOSE i \in 1..Len(real_order) : real_order[i] = sorted_order[j]) - 1]

\* lines 150-175: all_of(EqualityFunc) over the dst ids; throw when it is
\* false, else gather the new ids and return
UniqueAndCompact_check ==
  /\ upc = "located"
  /\ found' \in {f \in [1..Len(dst_ids) -> (0..MaxIdsLen) \cup {-1}] :
                   \A i \in 1..Len(dst_ids) :
                     f[i] \in ReadAt(sorted_order, new_dst_ids_loc[i], dst_ids[i])}
  /\ IF \A i \in 1..Len(dst_ids) : EqualityFunc(found', i)
     THEN /\ upc' = "returned"
          /\ \E new_dst_ids \in [1..Len(dst_ids) -> (0..(2 * MaxIdsLen)) \cup {-1}] :
               /\ \A i \in 1..Len(dst_ids) :
                    new_dst_ids[i] \in
                      ReadAt(NewIds, new_dst_ids_loc[i], Len(real_order))
               /\ uresult' = <<real_order,
                               [i \in 1..Len(src_ids) |-> NewIds[new_src_ids_loc[i] + 1]],
                               new_dst_ids>>
     ELSE \* throw std::out_of_range("Some ids not found.")
          /\ upc' = "thrown"
          /\ UNCHANGED uresult
  /\ UNCHANGED <<src_ids, dst_ids, unique_dst_ids, real_order, sorted_order,
                 new_src_ids_loc, new_dst_ids_loc>>
  /\ UNCHANGED <<hvars, pvars, bvars, xvars, mvars, cvars, nvars>>

(***************************************************************************)
(*        9. COO operators: COOIntersection, COORemoveIf,                  *)
(*           COOEtypeRemoveIf                                              *)
(* Matrices have 2 rows and 2 columns; duplicate entries are allowed.      *)
(***************************************************************************)
\* the (row, col) index arrays of up to n entries
CooIndices(n) ==
  UNION {[row : [1..m -> 0..1], col : [1..m -> 0..1]] : m \in 0..n}

\* indices.index({0}) * num_cols + indices.index({1})
EncodeIndices(m) == [i \in 1..Len(m.row) |-> m.row[i] * m.num_cols + m.col[i]]

\* base.index_put_({idx}, arange(idx.numel())): position idx[i] gets i; of
\* several i with the same idx[i] any one; the other positions keep theirs
index_put_(base, idx) ==
  {m \in [DOMAIN base -> Range(base) \cup 0..(Len(idx) - 1)] :
     \A q \in DOMAIN base :
       IF \E i \in 1..Len(idx) : idx[i] = q - 1
       THEN \E i \in 1..Len(idx) : idx[i] = q - 1 /\ m[q] = i - 1
       ELSE m[q] = base[q]}

\* t.index({mask})
index(t, mask) ==
  LET kept == {q \in 1..Len(t) : mask[q]}
  IN [i \in 1..Cardinality(kept) |-> t[Nth(kept, i)]]

\* COOIntersection is called with two matrices of the same shape
COOIntersection_call ==
  /\ opc = "off"
  /\ \E l \in CooIndices(MaxCooNnz), r \in CooIndices(MaxCooNnz - 1) :
       /\ coo' = [num_cols |-> 2, row |-> l.row, col |-> l.col, data |-> <<>>]
       /\ rhs_coo' = [num_cols |-> 2, row |-> r.row, col |-> r.col, data |-> <<>>]
  /\ opc' = "COOIntersection"
  /\ UNCHANGED <<hvars, pvars, bvars, xvars, mvars, cvars, uvars,
                 coo_num_picks, avars, tvars>>
  /\ UNCHANGED <<values, criteria, etype_offset, het, oret>>

\* COOIntersection(lhs, rhs). torch::unique_dim returns the distinct codes
\* in an order the call does not depend on; torch::empty_like leaves
\* map_to_original uninitialised.
COOIntersection ==
  /\ opc = "COOIntersection"
  /\ LET lhs_arr == EncodeIndices(coo)
         rhs_arr == EncodeIndices(rhs_coo)
         arr == lhs_arr \o rhs_arr
     IN \E unique \in _unique(arr) :
          LET inv == inverse(unique, arr)
              \* the counts torch::unique_dim returns with unique
              cnt == [q \in 1..Len(unique) |->
                        Cardinality({i \in 1..Len(arr) : arr[i] = unique[q]})]
              mask == [q \in 1..Len(unique) |-> cnt[q] > 1]
              lhs_inverse == SubSeq(inv, 1, Len(lhs_arr))
              rhs_inverse == SubSeq(inv, Len(lhs_arr) + 1, Len(arr))
              ret_arr == index(unique, mask)
          IN \E empty \in [1..Len(unique) -> {Unwritten, 0}] :
               \E m1 \in index_put_(empty, lhs_inverse) :
                 \E m2 \in index_put_(m1, rhs_inverse) :
                   oret' = [row |-> [i \in 1..Len(ret_arr) |->
                                       ret_arr[i] \div coo.num_cols],
                            col |-> [i \in 1..Len(ret_arr) |->
                                       ret_arr[i] % coo.num_cols],
                            data |-> <<>>,
                            lhs_indices |-> index(m1, mask),
                            rhs_indices |-> index(m2, mask)]
  /\ opc' = "intersected"
  /\ UNCHANGED <<hvars, pvars, bvars, xvars, mvars, cvars, uvars,
                 coo_num_picks, avars, tvars>>
  /\ UNCHANGED <<coo, rhs_coo, values, criteria, etype_offset, het>>


\* the COOMatrix built from the entries of kept, in order, with edge ids eid
KeptMatrix(kept, eid) ==
  [row |-> [j \in 1..Cardinality(kept) |-> coo.row[Nth(kept, j)]],
   col |-> [j \in 1..Cardinality(kept) |-> coo.col[Nth(kept, j)]],
   data |-> [j \in 1..Cardinality(kept) |-> eid[j]],
   lhs_indices |-> <<>>, rhs_indices |-> <<>>]

\* COORemoveIf is called, the one of array/cpu/coo_remove_if.cc or the one
\* of the second source file that defines it
COORemoveIf_call ==
  /\ opc = "off"
  /\ \E x \in CooIndices(MaxCooNnz) :
       \E d \in DataArrays(Len(x.row)) :
         coo' = [num_cols |-> 2, row |-> x.row, col |-> x.col, data |-> d]
  /\ values' \in [1..Len(coo'.row) -> {0, 1}]
  /\ criteria' \in {0, 1}
  /\ opc' \in {"COORemoveIf", "COORemoveIf_2"}
  /\ UNCHANGED <<hvars, pvars, bvars, xvars, mvars, cvars, uvars,
                 coo_num_picks, avars, tvars>>
  /\ UNCHANGED <<rhs_coo, etype_offset, het, oret>>

\* COORemoveIf of array/cpu/coo_remove_if.cc
COORemoveIf ==
  /\ opc = "COORemoveIf"
  /\ LET nnz == Len(coo.row)
         kept == {i \in 1..nnz : values[Eid(coo.data, i - 1) + 1] # criteria}
     IN oret' = KeptMatrix(kept, [j \in 1..Cardinality(kept) |->
                                    Eid(coo.data, Nth(kept, j) - 1)])
  /\ opc' = "removed"
  /\ UNCHANGED <<hvars, pvars, bvars, xvars, mvars, cvars, uvars,
                 coo_num_picks, avars, tvars>>
  /\ UNCHANGED <<coo, rhs_coo, values, criteria, etype_offset, het>>

\* COORemoveIf of the second source file: val[i], and
\* new_eid_data[j] = data ? data[j] : j
COORemoveIf_2 ==
  /\ opc = "COORemoveIf_2"
  /\ LET nnz == Len(coo.row)
         kept == {i \in 1..nnz : values[i] # criteria}
     IN oret' = KeptMatrix(kept, [j \in 1..Cardinality(kept) |->
                                    Eid(coo.data, j - 1)])
  /\ opc' = "removed"
  /\ UNCHANGED <<hvars, pvars, bvars, xvars, mvars, cvars, uvars,
                 coo_num_picks, avars, tvars>>
  /\ UNCHANGED <<coo, rhs_coo, values, criteria, etype_offset, het>>

\* COOEtypeRemoveIf is called with the edges split over one or two edge
\* types; a value array is null (<<>>) or has one value per edge of its type
COOEtypeRemoveIf_call ==
  /\ opc = "off"
  /\ \E x \in CooIndices(MaxCooNnz) :
       \E d \in DataArrays(Len(x.row)) :
         coo' = [num_cols |-> 2, row |-> x.row, col |-> x.col, data |-> d]
  /\ etype_offset' \in {<<0, Len(coo'.row)>>}
                        \cup {<<0, m, Len(coo'.row)>> : m \in 0..Len(coo'.row)}
  /\ \E v \in [1..(Len(etype_offset') - 1) ->
               UNION {[1..m -> {0, 1}] : m \in 0..Len(coo'.row)}] :
       /\ \A t \in DOMAIN v :
            v[t] = <<>> \/ Len(v[t]) = etype_offset'[t + 1] - etype_offset'[t]
       /\ values' = v
  /\ criteria' \in {0, 1}
  /\ opc' = "COOEtypeRemoveIf"
  /\ UNCHANGED <<hvars, pvars, bvars, xvars, mvars, cvars, uvars,
                 coo_num_picks, avars, tvars>>
  /\ UNCHANGED <<rhs_coo, het, oret>>

\* heterogenized_etype and heterogenized_eid of lines 82-85 for the
\* homogenized edge id e
Heterogenize(e) ==
  LET t == lower_bound(etype_offset, e)
  IN [etype |-> t, eid |-> e - etype_offset[t + 1]]

\* whether the test of lines 86-89 passes for an entry: val has
\* etype_offset.size() - 1 elements and a value array as many as its type
\* has edges; a read outside either is a read of other memory
Passes(h) ==
  IF h.etype >= Len(values) THEN BOOLEAN
  ELSE IF values[h.etype + 1] = <<>> THEN {TRUE}
  ELSE IF h.eid \in 0..(Len(values[h.etype + 1]) - 1)
       THEN {values[h.etype + 1][h.eid + 1] # criteria}
       ELSE BOOLEAN

\* COOEtypeRemoveIf
COOEtypeRemoveIf ==
  /\ opc = "COOEtypeRemoveIf"
  /\ LET nnz == Len(coo.row)
         h == [i \in 1..nnz |-> Heterogenize(Eid(coo.data, i - 1))]
     IN /\ het' = h
        /\ \E pass \in [1..nnz -> BOOLEAN] :
             /\ \A i \in 1..nnz : pass[i] \in Passes(h[i])
             /\ LET kept == {i \in 1..nnz : pass[i]}
                IN oret' = KeptMatrix(kept, [j \in 1..Cardinality(kept) |->
                                               Eid(coo.data, Nth(kept, j) - 1)])
  /\ opc' = "etype_removed"
  /\ UNCHANGED <<hvars, pvars, bvars, xvars, mvars, cvars, uvars,
                 coo_num_picks, avars, tvars>>
  /\ UNCHANGED <<coo, rhs_coo, values, criteria, etype_offset>>


(***************************************************************************)
(*      10. Atomic operations built from compare-and-swap                  *)
(*          (DEFINE_ATOMIC: AtomicMax, AtomicMin, AtomicAdd)               *)
(* Several callers apply the same operation to one address.                *)
(***************************************************************************)
\* OP(a, b) of the definition in force: max(a, b), min(a, b), a + b
OP(name, a, b) ==
  CASE name = "Max" -> (IF a < b THEN b ELSE a)
    [] name = "Min" -> (IF a < b THEN a ELSE b)
    [] name = "Add" -> a + b

\* up to MaxCallers threads call Atomic##NAME(addr, val) on one address
Atomic_call ==
  /\ atomic = "none"
  /\ atomic' \in {"Max", "Min", "Add"}
  /\ addr' \in {0, 1, 65535}
  /\ addr0' = addr'
  /\ \E n \in 1..MaxCallers :
       \E v \in [1..n -> {-1, 1, 2}] :
         callers' = [t \in 1..n |->
                       [pc |-> "load", val |-> v[t], old |-> Unwritten,
                        assumed |-> Unwritten, replaced |-> Unwritten,
                        ret |-> Unwritten]]
  /\ UNCHANGED <<hvars, pvars, bvars, xvars, mvars, cvars, uvars, ovars,
                 coo_num_picks, tvars>>

\* one step of caller t in Atomic##NAME: the load "CT old = *addr_as_ui",
\* or one iteration of the do-while loop with its atomicCAS. The address
\* holds the code of the value: Cast<T>::Encode is the static_cast to the
\* unsigned type of the width of T (16 bits here) and Decode the cast back.
Atomic(t) ==
  LET Encode(v) == v % 65536
      Decode(code) == IF code >= 32768 THEN code - 65536 ELSE code
  IN
  /\ t \in DOMAIN callers
  /\ \/ /\ callers[t].pc = "load"
        /\ callers' = [callers EXCEPT ![t].old = addr, ![t].assumed = addr,
                                      ![t].pc = "loop"]
        /\ addr' = addr
     \/ /\ callers[t].pc = "loop"
        /\ LET assumed == callers[t].old
               r == CAS(addr, assumed,
                        Encode(OP(atomic, callers[t].val, Decode(callers[t].old))))
           IN /\ addr' = r.mem
              /\ callers' =
                   [callers EXCEPT
                      ![t].assumed = assumed,
                      ![t].old = r.ret,
                      ![t].replaced = IF addr = assumed THEN Decode(addr) ELSE @,
                      ![t].pc = IF assumed # r.ret THEN "loop" ELSE "done",
                      ![t].ret = IF assumed # r.ret THEN @ ELSE Decode(r.ret)]
  /\ UNCHANGED <<atomic, addr0>>
  /\ UNCHANGED <<hvars, pvars, bvars, xvars, mvars, cvars, uvars, ovars,
                 coo_num_picks, tvars>>

(***************************************************************************)
(* 11. The tensorpipe communicator (rpc/tensorpipe/tp_communicator.cc)     *)
(*                                                                         *)
(* One TPReceiver and MaxSenders TPSenders, each sender connecting with    *)
(* recv_id 0, so that pipe p is the pipe of sender p. Three kinds of       *)
(* thread take part: the thread calling Wait, the accepting thread Wait    *)
(* starts, and the tensorpipe threads that run the callbacks. A pipe       *)
(* carries its messages in the order written and serves the read           *)
(* operations posted on it in the order posted: the descriptor callback    *)
(* of an operation runs once a message is there and the operations before  *)
(* it are over, and its read callback once the payload has been read.      *)
(* Pipes stay open (Finalize is not called, stop_wait_ stays false), so no *)
(* callback is handed an error. listen_booted_ and num_connected_ are read *)
(* and written as atomics.                                                 *)
(***************************************************************************)
dglconnect(s) == [metadata |-> "dglconnect", src |-> s, seq |-> 0]

\* TPSender::ConnectReceiver of sender s, recv_id not being in pipes_ yet:
\* connect, write the handshake message, wait for the write callback (it
\* reports no error) and keep the pipe. connect needs the listener to be
\* there. The call returns without waiting for the receiver to read.
ConnectReceiver(s) ==
  /\ senders[s].pc = "idle"
  /\ listen_booted_
  /\ listener' = Append(listener, s)
  /\ inq' = [inq EXCEPT ![s] = Append(@, dglconnect(s))]
  /\ senders' = [senders EXCEPT ![s].pc = "connected"]
  /\ UNCHANGED <<ops, wait_thread_, pipe_prom, checkConnect, listen_booted_,
                 num_connected_, pipes_, queue_, received, num_sender,
                 blocking, wait_pc, total_sent>>
  /\ UNCHANGED <<hvars, pvars, bvars, xvars, mvars, cvars, uvars, ovars,
                 coo_num_picks, avars>>

\* TPSender::Send of sender s: write the next message on pipes_[recv_id]
Send(s) ==
  /\ senders[s].pc = "connected"
  /\ total_sent < MaxMsgs
  /\ inq' = [inq EXCEPT ![s] = Append(@, [metadata |-> "rpc", src |-> s,
                                          seq |-> senders[s].sent + 1])]
  /\ senders' = [senders EXCEPT ![s].sent = @ + 1]
  /\ total_sent' = total_sent + 1
  /\ UNCHANGED <<listener, ops, wait_thread_, pipe_prom, checkConnect,
                 listen_booted_, num_connected_, pipes_, queue_, received,
                 num_sender, blocking, wait_pc>>
  /\ UNCHANGED <<hvars, pvars, bvars, xvars, mvars, cvars, uvars, ovars,
                 coo_num_picks, avars>>

\* TPReceiver::Wait on the calling thread: start the accepting thread
\* (wait_thread_ is not joinable yet), spin until listen_booted_, spin
\* while blocking and num_sender differs from num_connected_, return true.
\* A pass through a spin loop that does not leave it changes nothing.
Wait ==
  /\ \/ /\ wait_pc = "idle"
        /\ wait_thread_ = "none"
        /\ \E n \in 1..MaxSenders, b \in BOOLEAN :
             num_sender' = n /\ blocking' = b
        /\ wait_thread_' = "listen"
        /\ wait_pc' = "booting"
     \/ /\ wait_pc = "booting"
        /\ listen_booted_
        /\ wait_pc' = "connecting"
        /\ UNCHANGED <<num_sender, blocking, wait_thread_>>
     \/ /\ wait_pc = "connecting"
        /\ ~(blocking /\ num_sender # num_connected_)
        /\ wait_pc' = "returned_true"
        /\ UNCHANGED <<num_sender, blocking, wait_thread_>>
  /\ UNCHANGED <<senders, listener, inq, ops, pipe_prom, checkConnect,
                 listen_booted_, num_connected_, pipes_, queue_, received,
                 total_sent>>
  /\ UNCHANGED <<hvars, pvars, bvars, xvars, mvars, cvars, uvars, ovars,
                 coo_num_picks, avars>>

\* The thread Wait starts, and the callbacks it posts. In order: listen
\* and post an accept; the accept callback fulfils pipe_prom; the thread takes
\* the pipe and posts the handshake readDescriptor; its callback fulfils
\* checkConnect and posts the read; that read ends; the thread, CHECK
\* having passed, stores the pipe, calls ReceiveFromPipe (which posts a
\* readDescriptor), increments num_connected_ and posts the next accept.
Wait_thread ==
  /\ \/ /\ wait_thread_ = "listen"
        /\ listen_booted_' = TRUE
        /\ pipe_prom' = <<>>
        /\ wait_thread_' = "pipe_wait"
        /\ UNCHANGED <<listener, inq, ops, checkConnect, num_connected_,
                       pipes_>>
     \/ /\ wait_thread_ = "pipe_wait" /\ pipe_prom = <<>>
        /\ listener # <<>>
        /\ pipe_prom' = <<Head(listener)>>
        /\ listener' = Tail(listener)
        /\ UNCHANGED <<inq, ops, wait_thread_, checkConnect, listen_booted_,
                       num_connected_, pipes_>>
     \/ /\ wait_thread_ = "pipe_wait" /\ pipe_prom # <<>>
        /\ checkConnect' = <<>>
        /\ ops' = [ops EXCEPT ![pipe_prom[1]] =
                     Append(@, [cb |-> "connect", st |-> "desc"])]
        /\ wait_thread_' = "check_wait"
        /\ UNCHANGED <<listener, inq, pipe_prom, listen_booted_,
                       num_connected_, pipes_>>
     \/ /\ wait_thread_ = "check_wait"
        /\ \E p \in DOMAIN ops :
             /\ ops[p] # <<>> /\ Head(ops[p]) = [cb |-> "connect", st |-> "desc"]
             /\ inq[p] # <<>>
             /\ checkConnect' = <<Head(inq[p]).metadata = "dglconnect">>
             /\ ops' = [ops EXCEPT ![p] =
                          <<[cb |-> "connect", st |-> "read"]>> \o Tail(@)]
        /\ UNCHANGED <<listener, inq, wait_thread_, pipe_prom, listen_booted_,
                       num_connected_, pipes_>>
     \/ /\ \E p \in DOMAIN ops :
             /\ ops[p] # <<>> /\ Head(ops[p]) = [cb |-> "connect", st |-> "read"]
             /\ inq' = [inq EXCEPT ![p] = Tail(@)]
             /\ ops' = [ops EXCEPT ![p] = Tail(@)]
        /\ UNCHANGED <<listener, wait_thread_, pipe_prom, checkConnect,
                       listen_booted_, num_connected_, pipes_>>
     \/ /\ wait_thread_ = "check_wait"
        /\ checkConnect = <<TRUE>>
        /\ pipes_' = pipes_ \o <<pipe_prom[1]>>
        /\ ops' = [ops EXCEPT ![pipe_prom[1]] =
                     Append(@, [cb |-> "rpc", st |-> "desc"])]
        /\ num_connected_' = num_connected_ + 1
        /\ pipe_prom' = <<>>
        /\ wait_thread_' = "pipe_wait"
        /\ UNCHANGED <<listener, inq, checkConnect, listen_booted_>>
  /\ UNCHANGED <<senders, queue_, received, num_sender, blocking, wait_pc,
                 total_sent>>
  /\ UNCHANGED <<hvars, pvars, bvars, xvars, mvars, cvars, uvars, ovars,
                 coo_num_picks, avars>>

\* ReceiveFromPipe calling itself from the descriptor callback, ahead of
\* the read, and not from the read callback
ReceiveFromPipe_rearm_first(p) ==
  /\ ops[p] # <<>> /\ Head(ops[p]).cb = "rpc"
  /\ \/ /\ Head(ops[p]).st = "desc"
        /\ inq[p] # <<>>
        /\ ops' = [ops EXCEPT ![p] = <<[cb |-> "rpc", st |-> "read"]>> \o Tail(@)
                                       \o <<[cb |-> "rpc", st |-> "desc"]>>]
        /\ UNCHANGED <<inq, queue_>>
     \/ /\ Head(ops[p]).st = "read"
        /\ queue_' = Append(queue_, Head(inq[p]))
        /\ inq' = [inq EXCEPT ![p] = Tail(@)]
        /\ ops' = [ops EXCEPT ![p] = Tail(@)]
  /\ UNCHANGED <<senders, listener, wait_thread_, pipe_prom, checkConnect,
                 listen_booted_, num_connected_, pipes_, received, num_sender,
                 blocking, wait_pc, total_sent>>
  /\ UNCHANGED <<hvars, pvars, bvars, xvars, mvars, cvars, uvars, ovars,
                 coo_num_picks, avars>>

\* The callbacks TPReceiver::ReceiveFromPipe posts on pipe p. The
\* descriptor callback (no error) allocates and posts the read; the read
\* callback (no error) rebuilds the message from the descriptor, pushes it
\* to the back of the queue and calls ReceiveFromPipe again, which posts
\* the next readDescriptor.
ReceiveFromPipe(p) ==
  /\ ops[p] # <<>> /\ Head(ops[p]).cb = "rpc"
  /\ \/ /\ Head(ops[p]).st = "desc"
        /\ inq[p] # <<>>
        /\ ops' = [ops EXCEPT ![p] = <<[cb |-> "rpc", st |-> "read"]>> \o Tail(@)]
        /\ UNCHANGED <<inq, queue_>>
     \/ /\ Head(ops[p]).st = "read"
        /\ queue_' = Append(queue_, Head(inq[p]))
        /\ inq' = [inq EXCEPT ![p] = Tail(@)]
        /\ ops' = [ops EXCEPT ![p] = Append(Tail(@), [cb |-> "rpc", st |-> "desc"])]
  /\ UNCHANGED <<senders, listener, wait_thread_, pipe_prom, checkConnect,
                 listen_booted_, num_connected_, pipes_, received, num_sender,
                 blocking, wait_pc, total_sent>>
  /\ UNCHANGED <<hvars, pvars, bvars, xvars, mvars, cvars, uvars, ovars,
                 coo_num_picks, avars>>

\* TPReceiver::Recv: *msg = queue_->pop(), the message at the front of the
\* queue; pop waits on an empty queue
Recv ==
  /\ queue_ # <<>>
  /\ received' = Append(received, Head(queue_))
  /\ queue_' = Tail(queue_)
  /\ UNCHANGED <<senders, listener, inq, ops, wait_thread_, pipe_prom,
                 checkConnect, listen_booted_, num_connected_, pipes_,
                 num_sender, blocking, wait_pc, total_sent>>
  /\ UNCHANGED <<hvars, pvars, bvars, xvars, mvars, cvars, uvars, ovars,
                 coo_num_picks, avars>>

vars == <<hvars, pvars, kvars>>


NextHash ==
  \/ \E t \in Workers : attempt_insert_at(t)
  \/ fillInIds_sum
  \/ \E t \in Workers : fillInIds_write(t)
  \/ Init_return
  \/ map_call
  \/ Map_start
  \/ \E t \in 0..(NumChunks(MaxNumIds + 1) - 1) : Map_chunk(t)
  \/ Map_return

SpecHash == InitHash /\ [][NextHash]_vars

NextPick ==
  \/ SamplingUniform_NumPicks
  \/ SamplingUniform_Pick
  \/ Sampling_NumPicks
  \/ Sampling_Pick

InitPickAll == InitPick \/ InitPickExample

SpecPick == InitPickAll /\ [][NextPick]_vars

NextTopk ==
  \/ Topk_NumPicks
  \/ Topk_Pick

InitTopkAll == InitTopk \/ InitTopkExample

SpecTopk == InitTopkAll /\ [][NextTopk]_vars

NextBiased ==
  \/ SamplingBiased_NumPicks
  \/ SamplingBiased_Pick

SpecBiased == InitBiased /\ [][NextBiased]_vars

NextUniformBoth ==
  \/ SamplingUniform_NumPicks
  \/ SamplingUniform_Pick
  \/ COOSamplingUniform_NumPicks

\* the calls of InitPick under the uniform policy
InitUniformBoth == InitPick /\ policy = "uniform"

SpecUniformBoth == InitUniformBoth /\ [][NextUniformBoth]_vars

NextBcast ==
  \/ CalcBcastInfo_call
  \/ CalcBcastInfo_step
  \/ CalcBcastInfo_return
  \/ BinaryOpReduce_dispatch

\* before any call of sections 3 to 8
InitIdle == HashIdle /\ PickIdle /\ KernelIdle

SpecBcast == InitIdle /\ [][NextBcast]_vars

NextCtx ==
  \/ Entry_call
  \/ BinaryOpReduce
  \/ BackwardLhsBinaryOpReduce
  \/ BackwardRhsBinaryOpReduce
  \/ CopyReduce
  \/ BackwardCopyReduce
  \/ Kernel_run

SpecCtx == InitIdle /\ [][NextCtx]_vars

NextCsr ==
  \/ SpMMCsr_call
  \/ \E ty \in 0..(MaxRows - 1) : ty < Len(out) /\ SpMMCsrKernel(ty)

SpecCsr == InitIdle /\ [][NextCsr]_vars

NextCoo ==
  \/ SpMMCoo_call
  \/ _FillKernel
  \/ \E e \in 0..(MaxEdges - 1) : SpMMCooKernel(e)
  \/ SpMMCooKernel_end
  \/ \E e \in 0..(MaxEdges - 1) : ArgSpMMCooKernel(e)
  \/ SpMMCoo_return

SpecCoo == InitIdle /\ [][NextCoo]_vars

NextCompact ==
  \/ CompactCOO_call
  \/ CompactCOO
  \/ CompactCOO_again

SpecCompact == InitIdle /\ [][NextCompact]_vars

NextUnique ==
  \/ UniqueAndCompact_call
  \/ UniqueAndCompact_locate
  \/ UniqueAndCompact_check

SpecUnique == InitIdle /\ [][NextUnique]_vars

NextCooOps ==
  \/ COOIntersection_call
  \/ COOIntersection
  \/ COORemoveIf_call
  \/ COORemoveIf
  \/ COORemoveIf_2
  \/ COOEtypeRemoveIf_call
  \/ COOEtypeRemoveIf

SpecCooOps == InitIdle /\ [][NextCooOps]_vars

NextAtomic ==
  \/ Atomic_call
  \/ \E t \in 1..MaxCallers : Atomic(t)

SpecAtomic == InitIdle /\ [][NextAtomic]_vars

NextTP ==
  \/ Wait
  \/ Wait_thread
  \/ \E s \in 1..MaxSenders : ConnectReceiver(s)
  \/ \E s \in 1..MaxSenders : Send(s)
  \/ \E p \in 1..MaxSenders : ReceiveFromPipe(p)
  \/ Recv

SpecTP == InitIdle /\ [][NextTP]_vars

\* Every thread keeps being scheduled: the calling thread, the accepting
\* thread and the tensorpipe threads that run the callbacks make the step
\* they can make, and every sender goes through with its handshake.
SpecTPFair ==
  /\ InitIdle /\ [][NextTP]_vars
  /\ WF_vars(Wait)
  /\ WF_vars(Wait_thread)
  /\ \A s \in 1..MaxSenders : WF_vars(ConnectReceiver(s))
  /\ \A p \in 1..MaxSenders : WF_vars(ReceiveFromPipe(p))

(***************************************************************************)
(*                              Properties                                 *)
(***************************************************************************)
Built == hpc \in {"ready", "mapping", "mapped"}

\* C1: once Init has returned, the returned count is the number of distinct
\* input ids, and the first that-many cells of unique_ids hold each distinct
\* input id exactly once: none twice, none missing, none foreign.
C1_InitUniqueIds ==
  Built =>
    /\ ret = Cardinality(Range(ids))
    /\ ret <= Len(unique_ids)
    /\ {unique_ids[p] : p \in 1..ret} = Range(ids)
    /\ \A p, q \in 1..ret : p # q => unique_ids[p] # unique_ids[q]

\* three ids on two workers, one id twice, two different ids on one slot
C1_Witness ==
  /\ hpc = "ready"
  /\ Len(ids) = 3
  /\ ret = 2
  /\ ids[1] = ids[3]
  /\ ids[2] # ids[1] /\ Hash(ids[2]) = Hash(ids[1])

\* C2: a lookup on the built map returns a value in [0, n) for an id that
\* occurs in the input, and exactly default_val for an id that does not.
C2_MapLookup ==
  (Built /\ lookup # <<>>) =>
    IF lookup.id \in Range(ids)
    THEN 0 <= lookup.res /\ lookup.res < ret
    ELSE lookup.res = lookup.dflt

\* a lookup of an absent id whose probe starts on an occupied slot, on a
\* map that holds two ids
C2_Witness ==
  /\ hpc = "ready" /\ lookup # <<>> /\ ret >= 2
  /\ lookup.id \notin Range(ids)
  /\ hmap[Hash(lookup.id)].key # kEmptyKey
  /\ lookup.res = lookup.dflt

InsertsDone == hpc # "off" /\ (hpc # "insert" \/ \A t \in Workers : wk[t].st = "barrier")

\* C3: when all workers have finished inserting, every distinct key has
\* exactly one input position with its valid flag set and sits in exactly
\* one slot of the table.
C3_OneWinnerPerKey ==
  InsertsDone =>
    \A key \in Range(ids) :
      /\ Cardinality({i \in 1..Len(ids) : ids[i] = key /\ valid[i] = 1}) = 1
      /\ Cardinality({p \in DOMAIN hmap : hmap[p].key = key}) = 1

\* two workers raced for the same key and the worker of the later position
\* won
C3_Witness ==
  /\ hpc = "insert" /\ InsertsDone
  /\ Len(ids) = 3
  /\ ids[1] = ids[3] /\ valid[3] = 1 /\ valid[1] = 0

\* C4: on the built map the value of each key is its position in
\* unique_ids, and when Map has finished every cell of new_ids holds the
\* lookup result of the corresponding input id.
C4_ValuesArePositions ==
  /\ Built =>
       \A p \in 1..Min(ret, Len(unique_ids)) :
         \A d \in DefaultVals : map(hmap, unique_ids[p], d) = p - 1
  /\ hpc = "mapped" =>
       \A i \in 1..Len(qids) : new_ids[i] = map(hmap, qids[i], mdflt)

\* Map has finished on an input split over two chunks, with found and
\* missing ids
C4_Witness ==
  /\ hpc = "mapped" /\ ret >= 2
  /\ Len(qids) > grain_size
  /\ new_ids[Len(qids)] = mdflt
  /\ \E i \in 1..Len(qids) : new_ids[i] = 1

\* C5: the number of picks of uniform sampling for a row is len when
\* num_samples = -1, min(len, num_samples) without replacement, and with
\* replacement num_samples for a non-empty row and 0 for an empty one.
C5_UniformNumPicks ==
  (policy = "uniform" /\ ppc \in {"counted", "picked", "error"}) =>
    num_picks = IF num_samples = -1 THEN len
                ELSE IF ~replace THEN (IF len < num_samples THEN len ELSE num_samples)
                ELSE IF len > 0 THEN num_samples ELSE 0

\* C6: every position the uniform pick function writes lies in the row,
\* and without replacement no position is written twice.
C6_UniformPicksInRow ==
  (policy = "uniform" /\ ppc = "picked") =>
    /\ \A j \in 1..Len(out_idx) : off <= out_idx[j] /\ out_idx[j] < off + len
    /\ ~replace => Injective(out_idx)

\* a draw of two out of more positions, without replacement, on a row that
\* does not start at 0
C6_Witness ==
  /\ policy = "uniform" /\ ppc = "picked"
  /\ ~replace /\ num_samples # -1 /\ off > 0
  /\ Len(out_idx) = 2 /\ len > 2
  /\ out_idx[1] > out_idx[2]

\* C7: every position picked by probability-weighted sampling has positive
\* probability; the row [0, 0, 5, 0] with one sample and no replacement
\* yields position 2.
C7_PositiveProbabilityOnly ==
  (policy = "prob" /\ ppc = "picked") =>
    /\ \A j \in 1..Len(out_idx) : prob[Eid(data, out_idx[j]) + 1] > 0
    /\ (prob = <<0, 0, 5, 0>> /\ off = 0 /\ len = 4 /\ data = <<>>
        /\ num_samples = 1 /\ ~replace) => out_idx = <<2>>

\* C8: probability-weighted sampling without replacement never returns a
\* result when num_samples (other than -1) exceeds the number of
\* positive-probability edges of the row: the call ends in an error.
C8_OversubscribedIsError ==
  (/\ policy = "prob" /\ ~replace /\ num_samples # -1
   /\ num_samples > Cardinality(PositiveAt(prob, data, off, len))
   /\ ppc \notin {"start", "counted"})
  => ppc = "error"

\* the order the top-k claim describes: by weight, positions of equal
\* weight in position order
StableTopk ==
  LET before(p, q) == \/ compare_fn(ascending, weight, data, p, q)
                      \/ /\ WeightAt(weight, data, p) = WeightAt(weight, data, q)
                         /\ p < q
      s == CHOOSE idx \in [1..len -> off..(off + len - 1)] :
             \A a, b \in 1..len : a < b => before(idx[a], idx[b])
  IN [j \in 1..k |-> s[j]]

\* C9: for k <= len the top-k pick function writes the first k positions
\* of the row ordered by weight, equal weights in position order.
C9_TopkStableOrder ==
  (policy = "topk" /\ ppc = "picked" /\ k <= len) => out_idx = StableTopk

\* C10: a top-k call with k greater than the row's length ends in an error;
\* the pick function never completes k writes for such a row.
C10_TopkOversizedIsError ==
  (policy = "topk" /\ k > len /\ ppc \notin {"start", "counted"}) => ppc = "error"

(* --------------------------- broadcast shapes -------------------------- *)
\* a trailing shape padded on the left with 1s to n axes
PadLeft(t, n) ==
  [i \in 1..n |-> IF i <= n - Len(t) THEN 1 ELSE t[i - (n - Len(t))]]

NumAxes == Max(Len(Trail(lhs_dims)), Len(Trail(rhs_dims)))
LhsPadded == PadLeft(Trail(lhs_dims), NumAxes)
RhsPadded == PadLeft(Trail(rhs_dims), NumAxes)
Mismatch == \E i \in 1..NumAxes :
              LhsPadded[i] # RhsPadded[i] /\ LhsPadded[i] # 1 /\ RhsPadded[i] # 1

\* C11: InferBinaryFeatureShape aligns the two trailing shapes at the
\* rightmost axis and returns, per axis, the larger of the two extents (a
\* missing axis counts 1); when some axis pair differs with neither extent
\* equal to 1 it raises the shape error and returns no shape.
C11_InferShape ==
  /\ bpc \in {"done", "run"} =>
       /\ ~Mismatch
       /\ InferBinaryFeatureShape =
            [i \in 1..NumAxes |->
               IF LhsPadded[i] < RhsPadded[i] THEN RhsPadded[i] ELSE LhsPadded[i]]
  /\ bpc = "error" => Mismatch
  /\ (bpc = "loop" /\ bj >= max_ndim) => ~Mismatch

C11_Witness ==
  /\ bpc = "done"
  /\ Trail(lhs_dims) = <<4, 1>> /\ Trail(rhs_dims) = <<1, 5>>
  /\ InferBinaryFeatureShape = <<4, 5>>

\* C20: when the two trailing shapes are identical (HasBcast is false) the
\* direct path, which reads both sides at the flat coordinate tx, reads what
\* the general broadcast path would read: CalcBcastInfo gives equal lhs, rhs
\* and out shapes, and the broadcast offset of every tx is tx itself.
C20_DirectPathIsBcastPath ==
  (bpc = "run" /\ ~HasBcast(lhs_dims, rhs_dims)) =>
     /\ info.lhs_shape = info.out_shape
     /\ info.rhs_shape = info.out_shape
     /\ Len(lhs_add) = Prod(Trail(lhs_dims))
     /\ \A t \in 1..Len(lhs_add) :
          /\ lhs_add[t] = BcastOffset(t - 1, info.out_shape, info.out_stride,
                                      info.lhs_shape, info.lhs_stride)
          /\ rhs_add[t] = BcastOffset(t - 1, info.out_shape, info.out_stride,
                                      info.rhs_shape, info.rhs_stride)
          /\ lhs_add[t] = t - 1

C20_Witness ==
  /\ bpc = "run"
  /\ Trail(lhs_dims) = <<2, 3>> /\ Trail(rhs_dims) = <<2, 3>>
  /\ lhs_add = <<0, 1, 2, 3, 4, 5>>
  /\ info.out_shape = <<6>>

(* --------------------------- device contexts --------------------------- *)
\* some data or gradient array, or some mapping array that is not a none
\* array, lies on another context than the graph
ContextMismatch ==
  \E a \in DOMAIN actx : actx[a] # "none" /\ actx[a] # gctx

\* C17: each of the five entry points fails with the device-context error
\* before a kernel is dispatched whenever one of its data or gradient arrays
\* or one of its mapping arrays that is not none lies on another context
\* than the graph; no output array is written.
C17_ContextChecked ==
  /\ (xpc \notin {"off", "called"} /\ ContextMismatch) =>
        xpc = "failed" /\ written = {}
  /\ xpc \in {"dispatched", "done"} => ~ContextMismatch
  /\ xpc = "failed" => ContextMismatch

C17_Witness ==
  /\ xpc = "failed"
  /\ fn = "BackwardCopyReduce"
  /\ written = {}
  /\ actx["out_mapping"] # gctx /\ actx["out_mapping"] # "none"
  /\ \A a \in DOMAIN actx : a # "out_mapping" => actx[a] \in {gctx, "none"}

(* ------------------------------ SpMM, CSR ------------------------------ *)
RECURSIVE SumOver(_, _)
\* sum of f[x] over the finite set S
SumOver(S, f) ==
  IF S = {} THEN 0
  ELSE LET x == CHOOSE y \in S : TRUE IN f[x] + SumOver(S \ {x}, f)

\* C12: SpMM over a CSR with copy-lhs and sum-reduce writes, for every row
\* r, the sum of the lhs feature of column indices[i] over the positions i
\* in [indptr[r], indptr[r+1]), starting from the identity 0.
C12_CsrCopyLhsSum ==
  mpc = "csr" =>
    \A r \in 1..Len(out) :
      out[r] # Unwritten =>
        out[r] = SumOver((indptr[r] + 1)..indptr[r + 1],
                         [i \in 1..Len(indices) |-> ufeat[indices[i] + 1]])

C12_Witness ==
  /\ mpc = "csr"
  /\ indptr = <<0, 2, 3>> /\ indices = <<0, 1, 0>> /\ ufeat = <<10, 20>>
  /\ out = <<30, 10>>

(* ------------------------------ SpMM, COO ------------------------------ *)
EdgesInto(d) == {e \in Edges : coo_col[e + 1] = d}

\* C18: sum-reduce over COO: whatever the order and interleaving of the
\* workers, every output element ends as the sum of Op over the edges into
\* its destination.
C18_CooSumOrderFree ==
  (mpc = "done" /\ reducer = "sum") =>
    \A d \in {0, 1} :
      out[d + 1] = SumOver(EdgesInto(d), [e \in Edges |-> EdgeVal(e)])

\* C19: max/min-reduce over COO: once SpMMCoo is complete, every output
\* element with an incoming edge holds (arg_u, arg_e) of one single edge
\* into that destination, an edge whose Op value is the reduced output.
C19_CooArgPairOfOneEdge ==
  (mpc = "done" /\ require_arg) =>
    \A d \in {0, 1} :
      EdgesInto(d) # {} =>
        \E e \in EdgesInto(d) :
          /\ arg_e[d + 1] = e
          /\ arg_u[d + 1] = coo_row[e + 1]
          /\ EdgeVal(e) = out[d + 1]

(* ------------------------------ compaction ----------------------------- *)
Compacted == cpc \in {"compacted", "again"}

\* C13: with leading_indices L the reverse mapping starts with the leading
\* ids in their order (ret_idx[i] = L[i] for i < len(L)): every element of
\* row equal to L[i] is relabelled i, every element not in L is relabelled
\* with a value >= len(L).
C13_LeadingFirst ==
  (Compacted /\ leading_indices.has_value) =>
    LET L == leading_indices.value
    IN /\ \A i \in 1..Len(L) : ret_idx[i] = L[i]
       /\ \A p \in 1..Len(row) :
            /\ \A i \in 1..Len(L) : row[p] = L[i] => new_row[p] = i - 1
            /\ row[p] \notin Range(L) => new_row[p] >= Len(L)

\* C14: for every row given to CompactIndices, with or without
\* leading_indices, ret_idx[new_row[i]] = row[i] at every position i, and
\* every new_row[i] lies in [0, len(ret_idx)).
C14_ReverseMapping ==
  Compacted =>
    \A p \in 1..Len(row) :
      /\ new_row[p] \in 0..(Len(ret_idx) - 1)
      /\ ret_idx[new_row[p] + 1] = row[p]

C14_Witness ==
  /\ cpc = "compacted"
  /\ row = <<2, 0, 2>>
  /\ leading_indices = [has_value |-> TRUE, value |-> <<1>>]
  /\ Len(ret_idx) = 3
  /\ ret_idx[new_row[1] + 1] = 2 /\ ret_idx[new_row[2] + 1] = 0

\* C15: compacting a dense, duplicate-free row (a permutation of 0..len-1)
\* with no leading prefix gives new indices that are a bijection onto
\* [0, len); compacting that output again leaves the reverse-mapped ids in
\* the order the first compaction gave them.
C15_CompactionIdempotent ==
  (cpc = "again" /\ Injective(row) /\ Range(row) = 0..(Len(row) - 1)) =>
    /\ Injective(new_row) /\ Range(new_row) = 0..(Len(row) - 1)
    /\ [j \in 1..Len(ret_idx2) |-> ret_idx[ret_idx2[j] + 1]] = ret_idx

(* --------------------------- UniqueAndCompact -------------------------- *)
\* C16: UniqueAndCompact throws the out-of-range error ("Some ids not
\* found.") and returns no result whenever some element of dst_ids is not
\* in unique_dst_ids, also when that element occurs in src_ids and when it
\* is larger than every id of src_ids and unique_dst_ids.
C16_MissingDstThrows ==
  (upc \in {"returned", "thrown"}
     /\ \E i \in 1..Len(dst_ids) : dst_ids[i] \notin Range(unique_dst_ids)) =>
    upc = "thrown" /\ uresult = <<>>

(* ------------------------ implicit edge ids ------------------------------ *)
\* the edge id of adjacency position p of the queried adjacency
EdgeIdAt(p) == IF data = <<>> THEN p ELSE data[p + 1]
RowPositions == off..(off + len - 1)

\* C21: top-k and probability-weighted picking read the weight or
\* probability of the edge at adjacency position p at index data[p] when
\* there is an edge-id array and at index p when there is none. Top-k: the
\* k positions written are in weight order of their edge ids and no
\* position left out comes before a written one. For every probability
\* array the closures may read, the num-picks function counts, the pick
\* function writes and DoubleSlice copies by that same index.
C21_SameEdgeIdRule ==
  /\ (policy = "topk" /\ ppc = "picked" /\ k <= len) =>
       LET w(p) == weight[EdgeIdAt(p) + 1]
           before(p, q) == IF ascending THEN w(p) < w(q) ELSE w(p) > w(q)
       IN /\ \A a, b \in 1..k : a < b => ~before(out_idx[b], out_idx[a])
          /\ \A q \in RowPositions \ Range(out_idx) :
               \A a \in 1..k : ~before(q, out_idx[a])
  /\ \A pr \in ProbArrays(off + len) :
       LET positive == {p \in RowPositions : pr[EdgeIdAt(p) + 1] > 0}
       IN /\ DoubleSlice(pr, data, off, len)
               = [j \in 1..len |-> pr[EdgeIdAt(off + j - 1) + 1]]
          /\ NumPicksFn(-1, pr, FALSE, data, off, len) = Cardinality(positive)
          /\ \A o \in PickFn(-1, pr, FALSE, data, off, len, Cardinality(positive)) :
               Range(o) = positive
          /\ \A o \in PickFn(1, pr, TRUE, data, off, len, 1) :
               Range(o) \subseteq positive

\* a top-k pick over a row whose edge ids differ from its positions and
\* whose weights differ between a position and its edge id
C21_Witness ==
  /\ policy = "topk" /\ ppc = "picked" /\ data # <<>>
  /\ k \in 1..(len - 1)
  /\ \E p \in RowPositions : weight[p + 1] # weight[EdgeIdAt(p) + 1]

(* ----------------------------- COO operators ---------------------------- *)
Coordinates(m) == {<<m.row[i], m.col[i]>> : i \in 1..Len(m.row)}
HoldsAt(m, pos, r, c) ==
  pos \in 0..(Len(m.row) - 1) /\ m.row[pos + 1] = r /\ m.col[pos + 1] = c

\* C22: COOIntersection returns exactly the coordinates that occur in both
\* lhs and rhs, and for every returned entry k lhs holds that coordinate at
\* position lhs_indices[k] and rhs holds it at position rhs_indices[k].
C22_IntersectionExact ==
  opc = "intersected" =>
    /\ Coordinates(oret) = Coordinates(coo) \cap Coordinates(rhs_coo)
    /\ Len(oret.lhs_indices) = Len(oret.row)
    /\ Len(oret.rhs_indices) = Len(oret.row)
    /\ \A n \in 1..Len(oret.row) :
         /\ HoldsAt(coo, oret.lhs_indices[n], oret.row[n], oret.col[n])
         /\ HoldsAt(rhs_coo, oret.rhs_indices[n], oret.row[n], oret.col[n])

\* the original edge id of entry i (from 1) of the argument matrix
OriginalEid(i) == IF coo.data = <<>> THEN i - 1 ELSE coo.data[i]

\* C26: COORemoveIf returns, in their original relative order, exactly the
\* entries i whose value, looked up by the entry's edge id, differs from
\* criteria, each as (row[i], col[i], that same edge id).
C26_RemoveIfKeepsByEid ==
  opc = "removed" =>
    LET keep == {i \in 1..Len(coo.row) : values[OriginalEid(i) + 1] # criteria}
        n == Cardinality(keep)
    IN /\ Len(oret.row) = n /\ Len(oret.col) = n /\ Len(oret.data) = n
       /\ \A j \in 1..n :
            /\ oret.row[j] = coo.row[Nth(keep, j)]
            /\ oret.col[j] = coo.col[Nth(keep, j)]
            /\ oret.data[j] = OriginalEid(Nth(keep, j))

\* C27: COOEtypeRemoveIf maps every homogenized edge id e to the edge type t
\* with etype_offset[t] <= e < etype_offset[t+1], a valid index of the
\* value-array list, and to the per-type edge id e - etype_offset[t], which
\* is never negative.
C27_EtypeOfEdge ==
  opc = "etype_removed" =>
    \A i \in 1..Len(coo.row) :
      LET e == OriginalEid(i)
          t == het[i].etype
      IN /\ t \in 0..(Len(values) - 1)
         /\ etype_offset[t + 1] <= e /\ e < etype_offset[t + 2]
         /\ het[i].eid = e - etype_offset[t + 1]
         /\ het[i].eid >= 0

(* --------------------------- merged shapes ------------------------------ *)
\* C23: for broadcastable trailing shapes the lhs_shape, rhs_shape and
\* out_shape of CalcBcastInfo have the same number of axes; at every axis
\* the out extent is the larger of the lhs and rhs extents, which are equal
\* or one of them is 1; and the products of the three lists are the element
\* counts of the lhs trailing shape, the rhs trailing shape and
\* real_out_shape.
C23_MergedShapes ==
  bpc \in {"done", "run"} =>
    /\ Len(info.lhs_shape) = Len(info.out_shape)
    /\ Len(info.rhs_shape) = Len(info.out_shape)
    /\ \A i \in 1..Len(info.out_shape) :
         /\ info.out_shape[i] =
              (IF info.lhs_shape[i] < info.rhs_shape[i]
               THEN info.rhs_shape[i] ELSE info.lhs_shape[i])
         /\ \/ info.lhs_shape[i] = info.rhs_shape[i]
            \/ info.lhs_shape[i] = 1
            \/ info.rhs_shape[i] = 1
    /\ Prod(info.lhs_shape) = Prod(Trail(lhs_dims))
    /\ Prod(info.rhs_shape) = Prod(Trail(rhs_dims))
    /\ Prod(info.out_shape) = Prod(info.real_out_shape)

(* ------------------------- pre-sized output range ----------------------- *)
\* C24: the pick function writes exactly as many positions for a row as the
\* num-picks function returned for it in phase 1, so it stays inside the
\* row's range of the output-index buffer; in particular for tag-biased
\* sampling without replacement on a row with fewer than num_samples edges.
C24_WritesNumPicks ==
  ppc = "picked" => Len(out_idx) = num_picks

(* ------------------------ COO and CSR entry points ---------------------- *)
\* C25: COORowWiseSamplingUniform and CSRRowWiseSamplingUniform, given the
\* same adjacency, row, num_samples and replace, return the same number of
\* picked edges for the row, for every num_samples (-1 included) and for
\* rows shorter than num_samples.
C25_CooCsrSameCount ==
  (policy = "uniform" /\ ppc \in {"counted", "picked", "error"}
     /\ coo_num_picks # Unwritten) =>
    num_picks = coo_num_picks

(* --------------------------- atomic operations -------------------------- *)
\* the value a 16-bit code stands for, and OP folded over a value and the
\* operands of the callers 1..n
ValueOf(code) == IF code >= 32768 THEN code - 65536 ELSE code
RECURSIVE FoldOP(_, _)
FoldOP(acc, n) ==
  IF n = 0 THEN acc ELSE OP(atomic, callers[n].val, FoldOP(acc, n - 1))

\* C28: AtomicMax, AtomicMin and AtomicAdd built from the compare-and-swap
\* retry loop lose no update: for every interleaving of the callers, once
\* all have returned the stored value is OP folded over the initial value
\* and all operands, and each call returns the value its successful swap
\* replaced.
C28_NoLostUpdate ==
  /\ (callers # <<>> /\ \A t \in DOMAIN callers : callers[t].pc = "done") =>
       ValueOf(addr) = FoldOP(ValueOf(addr0), Len(callers))
  /\ \A t \in DOMAIN callers :
       callers[t].pc = "done" => callers[t].ret = callers[t].replaced

\* three callers have returned and one of them had to retry: its first
\* compare-and-swap met a value another caller had stored meanwhile
C28_Witness ==
  /\ Len(callers) = 3
  /\ \A t \in DOMAIN callers : callers[t].pc = "done"
  /\ atomic = "Add"
  /\ \E t \in DOMAIN callers :
       callers[t].ret # ValueOf(addr0) /\ callers[t].val < 0
  /\ addr # addr0

(* C29: the messages of one pipe reach the receiver's queue in the order   *)
(* they arrived on the pipe and each exactly once: those of pipe p that    *)
(* were pushed (still queued or already handed out by Recv) are its first  *)
(* messages in order, together with those still in the pipe they are all   *)
(* that was sent, and the pipe never has more than one ReceiveFromPipe     *)
(* read operation posted.                                                  *)
FromPipe(p) == SelectSeq(received \o queue_, LAMBDA msg : msg.src = p)
InPipe(p) == SelectSeq(inq[p], LAMBDA msg : msg.metadata = "rpc")
C29_ArrivalOrderOnce ==
  \A p \in 1..MaxSenders :
    /\ \A i \in 1..Len(FromPipe(p)) :
         FromPipe(p)[i] = [metadata |-> "rpc", src |-> p, seq |-> i]
    /\ Len(FromPipe(p)) + Len(InPipe(p)) = senders[p].sent
    /\ Len(SelectSeq(ops[p], LAMBDA o : o.cb = "rpc")) <= 1
C29_Witness ==
  /\ \E p \in 1..MaxSenders : Len(FromPipe(p)) >= 2
  /\ received # <<>> /\ queue_ # <<>>

(* C30: a blocking Wait returns true once num_sender senders have got      *)
(* through the handshake, whatever the interleaving and however many       *)
(* senders connect.                                                        *)
C30_WaitReturns ==
  (wait_pc # "idle" /\ blocking /\ num_connected_ >= num_sender)
    ~> (wait_pc = "returned_true")

====
